---------------------------- MODULE Spec2Model ----------------------------
(***************************************************************************)
(* A model of the music synthesizer: the callback-driven sequencer         *)
(* (sequencer.c), the envelopes (instrument.c), the PipeWire driver        *)
(* (pw_driver.c) and the notation parser (parser.c).                       *)
(*                                                                         *)
(* TLC's integers are 32 bits wide, so every C expression computed in 64   *)
(* bits (the Q1.31 products) is evaluated limb by limb below; values of    *)
(* type int32_t are TLA+ integers, and a uint32_t phase word is held as    *)
(* the int32_t with the same bit pattern.                                  *)
(***************************************************************************)
EXTENDS Integers, Sequences, FiniteSets, TLC

VARIABLES
  seq,    \* sequencer_state_t: the song being played
  call,   \* the last invocation of sequencer_callback and the playback log
  ctx,    \* pw_audio_context_t: the PipeWire driver's context
  drv,    \* the audio thread's and the host's position in the driver
  prs,    \* parse_music's local state while it runs
  thy,    \* a call of note_to_absolute_semitone: its arguments and result
  cmp     \* a call of sequence_events: its arguments and result

vars == <<seq, call, ctx, drv, prs, thy, cmp>>

----------------------------------------------------------------------------
(* Fixed-width arithmetic *)

Limb == 2^12             \* base of the limbs of a 64-bit product
TwoTo7 == 2^7
TwoTo16 == 2^16
TwoTo15 == 2^15
TwoTo17 == 2^17
TwoTo22 == 2^22
Q31_ONE == 2147483647   \* 0x7FFFFFFF

Abs(x) == IF x < 0 THEN 0 - x ELSE x
Max(a, b) == IF a >= b THEN a ELSE b
Min(a, b) == IF a <= b THEN a ELSE b

\* the 64-bit product of two values below 2^31 is summed in columns of
\* 12-bit limbs: c0 .. c4 are the column sums of a*b, lowest first

\* floor(product / 2^31), and whether the product has a remainder mod 2^31
MulCarry(c0, t1, t2, t3, c4) ==
  [quot |-> ((t2 % Limb) \div TwoTo7) + (t3 % Limb) * 32
              + (c4 + (t3 \div Limb)) * TwoTo17,
   rest |-> (c0 % Limb) # 0 \/ (t1 % Limb) # 0 \/ ((t2 % Limb) % TwoTo7) # 0]

MulCarry3(c0, t1, t2, c3, c4) == MulCarry(c0, t1, t2, c3 + (t2 \div Limb), c4)

MulCarry2(c0, t1, c2, c3, c4) == MulCarry3(c0, t1, c2 + (t1 \div Limb), c3, c4)

MulColumns(a0, a1, a2, b0, b1, b2) ==
  MulCarry2(a0 * b0, a0 * b1 + a1 * b0 + ((a0 * b0) \div Limb),
            a0 * b2 + a1 * b1 + a2 * b0, a1 * b2 + a2 * b1, a2 * b2)

\* for 0 <= a, b < 2^31
MulParts(a, b) ==
  MulColumns(a % Limb, (a \div Limb) % Limb, a \div (Limb * Limb),
             b % Limb, (b \div Limb) % Limb, b \div (Limb * Limb))

\* the arithmetic shift rounds down: towards minus infinity
SignedShift(p, negative) ==
  IF negative THEN 0 - p.quot - (IF p.rest THEN 1 ELSE 0) ELSE p.quot

\* ((int64_t)a * b) >> 31 for int32_t a, b
MulShift31(a, b) ==
  SignedShift(MulParts(Abs(a), Abs(b)), (a < 0) # (b < 0) /\ a # 0 /\ b # 0)

\* ((int64_t)s * r) / d for 0 <= s < d and 0 <= r < 2^31 (C division truncates)
MulDiv(s, r, d) == s * (r \div d) + (s * (r % d)) \div d

\* (int16_t)x for an int32_t x: the low 16 bits, sign-extended
ToInt16(x) ==
  LET m == x % TwoTo16 IN IF m >= TwoTo15 THEN m - TwoTo16 ELSE m

\* a + b modulo 2^32 on phase words held as int32_t bit patterns
AddU32(a, b) ==
  LET lo == (a % TwoTo16) + (b % TwoTo16)
      hi == ((a \div TwoTo16) % TwoTo16) + ((b \div TwoTo16) % TwoTo16)
              + (lo \div TwoTo16)
      h  == hi % TwoTo16
  IN  (IF h >= TwoTo15 THEN h - TwoTo16 ELSE h) * TwoTo16 + (lo % TwoTo16)

----------------------------------------------------------------------------
(* Constants of the program *)

MAX_SIMULTANEOUS_EVENTS == 32
AUDIBLE_THRESHOLD == 4096        \* 0x00001000
SINE_TABLE_SIZE == 1024
VOLUME_UNIT == 268435456         \* 0x10000000

ADSR_ATTACK == 0
ADSR_DECAY == 1
ADSR_SUSTAIN == 2
ADSR_RELEASE == 3

NULL == 0

\* a < b on uint32_t words held as int32_t bit patterns
ULt(a, b) == IF (a < 0) = (b < 0) THEN a < b ELSE b < 0

----------------------------------------------------------------------------
(* Instruments and envelopes *)

\* the envelope function an instrument points to; an event whose
\* instrument pointer is NULL has none
InstrumentEnvelope(instrument) ==
  CASE instrument = "adsr"         -> "adsr_envelope"
    [] instrument = "pluck sine"   -> "adsr_envelope"
    [] instrument = "pluck square" -> "pluck_envelope"
    [] OTHER                       -> "none"

\* envelope_state is a union: the pluck_decay_t members initial_amplitude,
\* decay_multiplier and current_level occupy the words of the adsr_t members
\* attack_samples, decay_samples and sustain_level.  The model keeps the
\* adsr_t member names for the nine words.
PluckView(es) ==
  [initial_amplitude |-> es.attack_samples,
   decay_multiplier  |-> es.decay_samples,
   current_level     |-> es.sustain_level]

\* (int32_t)(exp(-log((1.0 + 0.00001) / 0.00001) / T) * 0x7FFFFFFF) for
\* T = 0 .. 32 effective release samples (exp(-inf) = 0 for T = 0)
release_coeff_table ==
  << 0, 21474, 6790905, 46265978, 120761578, 214747935, 315206967, 414613587,
     509247988, 597549417, 679093277, 754021997, 822740425, 885756089,
     943597318, 996772947, 1045754143, 1090967876, 1132796363, 1171579441,
     1207618196, 1241179004, 1272497508, 1301782329, 1329218420, 1354970037,
     1379183351, 1401988719, 1423502655, 1443829538, 1463063089, 1481287652,
     1498579301 >>

ReleaseCoeff(T) == release_coeff_table[T + 1]

\* pluck_envelope: the envelope state after the call; the level returned is
\* the state's new pluck current_level
pluck_envelope(es, samples_since_start, samples_until_release) ==
  [es EXCEPT !.sustain_level =
     MulShift31(PluckView(es).current_level, PluckView(es).decay_multiplier)]

\* faulty variant: the release is set up again on every sample
adsr_release_setup_again(es) ==
  [es EXCEPT !.release_start_level = es.current_level,
             !.phase = ADSR_RELEASE,
             !.release_coeff =
                ReleaseCoeff(Max(es.release_samples, es.min_release_samples))]

\* the first sample of the release: remember the level, compute the coefficient
adsr_release_setup(es) ==
  IF es.phase # ADSR_RELEASE
    THEN [es EXCEPT !.release_start_level = es.current_level,
                    !.phase = ADSR_RELEASE,
                    !.release_coeff =
                       ReleaseCoeff(Max(es.release_samples, es.min_release_samples))]
    ELSE es

\* levels below a quarter of the threshold snap to zero
ClampLevel(level) == IF level < AUDIBLE_THRESHOLD \div 4 THEN 0 ELSE level

adsr_release_step(es) ==
  [es EXCEPT !.current_level =
     ClampLevel(MulShift31(es.current_level, es.release_coeff))]

\* faulty variant: the decay counts its progress from the start of the note
adsr_envelope_late(es, samples_since_start, samples_until_release) ==
  IF samples_until_release <= 0 THEN
    adsr_release_step(adsr_release_setup(es))
  ELSE IF ULt(samples_since_start, es.attack_samples) THEN
    [es EXCEPT !.phase = ADSR_ATTACK,
               !.current_level = AUDIBLE_THRESHOLD +
                  MulDiv(samples_since_start, Q31_ONE - AUDIBLE_THRESHOLD,
                         es.attack_samples)]
  ELSE IF ULt(samples_since_start, es.attack_samples + es.decay_samples) THEN
    [es EXCEPT !.phase = ADSR_DECAY,
               !.current_level = Q31_ONE -
                  MulDiv(samples_since_start,
                         Q31_ONE - es.sustain_level, es.decay_samples)]
  ELSE
    [es EXCEPT !.phase = ADSR_SUSTAIN, !.current_level = es.sustain_level]

\* adsr_envelope: the envelope state after the call; the level returned is
\* the state's new current_level
adsr_envelope(es, samples_since_start, samples_until_release) ==
  IF samples_until_release <= 0 THEN
    adsr_release_step(adsr_release_setup(es))
  ELSE IF ULt(samples_since_start, es.attack_samples) THEN
    [es EXCEPT !.phase = ADSR_ATTACK,
               !.current_level = AUDIBLE_THRESHOLD +
                  MulDiv(samples_since_start, Q31_ONE - AUDIBLE_THRESHOLD,
                         es.attack_samples)]
  ELSE IF ULt(samples_since_start, es.attack_samples + es.decay_samples) THEN
    [es EXCEPT !.phase = ADSR_DECAY,
               !.current_level = Q31_ONE -
                  MulDiv(samples_since_start - es.attack_samples,
                         Q31_ONE - es.sustain_level, es.decay_samples)]
  ELSE
    [es EXCEPT !.phase = ADSR_SUSTAIN, !.current_level = es.sustain_level]

----------------------------------------------------------------------------
(* Events and sample generation *)

\* the 1024-entry table music_init fills:
\* sine_table[i] = (int32_t)(sin(2.0 * M_PI * i / 1024) * 0x7FFFFFFF)
sine_table ==
  <<
    0, 13176711, 26352927, 39528151, 52701886, 65873638, 79042909, 92209204,
    105372028, 118530884, 131685278, 144834714, 157978697, 171116732, 184248325, 197372981,
    210490205, 223599506, 236700387, 249792357, 262874923, 275947591, 289009870, 302061268,
    315101294, 328129456, 341145265, 354148229, 367137860, 380113668, 393075166, 406021864,
    418953276, 431868914, 444768293, 457650927, 470516330, 483364018, 496193509, 509004317,
    521795962, 534567962, 547319836, 560051103, 572761285, 585449902, 598116478, 610760535,
    623381597, 635979189, 648552837, 661102067, 673626407, 686125386, 698598532, 711045377,
    723465451, 735858286, 748223418, 760560379, 772868705, 785147933, 797397601, 809617248,
    821806412, 833964637, 846091463, 858186434, 870249094, 882278991, 894275670, 906238680,
    918167571, 930061893, 941921199, 953745042, 965532977, 977284561, 988999350, 1000676904,
    1012316783, 1023918549, 1035481765, 1047005996, 1058490807, 1069935767, 1081340444, 1092704410,
    1104027236, 1115308495, 1126547764, 1137744620, 1148898639, 1160009404, 1171076494, 1182099495,
    1193077990, 1204011566, 1214899812, 1225742317, 1236538674, 1247288476, 1257991319, 1268646799,
    1279254514, 1289814067, 1300325059, 1310787094, 1321199779, 1331562722, 1341875532, 1352137821,
    1362349203, 1372509293, 1382617709, 1392674071, 1402677998, 1412629116, 1422527049, 1432371425,
    1442161873, 1451898024, 1461579512, 1471205973, 1480777043, 1490292363, 1499751575, 1509154321,
    1518500249, 1527789006, 1537020242, 1546193611, 1555308767, 1564365365, 1573363067, 1582301532,
    1591180424, 1599999410, 1608758156, 1617456334, 1626093615, 1634669674, 1643184190, 1651636840,
    1660027307, 1668355275, 1676620430, 1684822462, 1692961061, 1701035921, 1709046738, 1716993210,
    1724875039, 1732691926, 1740443579, 1748129706, 1755750016, 1763304223, 1770792043, 1778213193,
    1785567395, 1792854371, 1800073847, 1807225552, 1814309215, 1821324571, 1828271354, 1835149305,
    1841958163, 1848697672, 1855367579, 1861967633, 1868497584, 1874957188, 1881346200, 1887664381,
    1893911493, 1900087299, 1906191569, 1912224071, 1918184579, 1924072869, 1929888719, 1935631909,
    1941302224, 1946899449, 1952423376, 1957873794, 1963250500, 1968553290, 1973781966, 1978936329,
    1984016187, 1989021348, 1993951623, 1998806828, 2003586778, 2008291294, 2012920199, 2017473319,
    2021950482, 2026351520, 2030676267, 2034924560, 2039096240, 2043191148, 2047209132, 2051150039,
    2055013722, 2058800034, 2062508834, 2066139982, 2069693340, 2073168776, 2076566158, 2079885359,
    2083126253, 2086288718, 2089372636, 2092377891, 2095304368, 2098151959, 2100920555, 2103610052,
    2106220350, 2108751350, 2111202957, 2113575078, 2115867624, 2118080509, 2120213650, 2122266965,
    2124240379, 2126133816, 2127947205, 2129680478, 2131333570, 2132906418, 2134398964, 2135811151,
    2137142926, 2138394238, 2139565041, 2140655291, 2141664947, 2142593969, 2143442325, 2144209981,
    2144896908, 2145503082, 2146028478, 2146473078, 2146836865, 2147119824, 2147321945, 2147443221,
    2147483647, 2147443221, 2147321945, 2147119824, 2146836865, 2146473078, 2146028478, 2145503082,
    2144896908, 2144209981, 2143442325, 2142593969, 2141664947, 2140655291, 2139565041, 2138394238,
    2137142926, 2135811151, 2134398964, 2132906418, 2131333570, 2129680478, 2127947205, 2126133816,
    2124240379, 2122266965, 2120213650, 2118080509, 2115867624, 2113575078, 2111202957, 2108751350,
    2106220350, 2103610052, 2100920555, 2098151959, 2095304368, 2092377891, 2089372636, 2086288718,
    2083126253, 2079885359, 2076566158, 2073168776, 2069693340, 2066139982, 2062508834, 2058800034,
    2055013722, 2051150039, 2047209132, 2043191148, 2039096240, 2034924560, 2030676267, 2026351520,
    2021950482, 2017473319, 2012920199, 2008291294, 2003586778, 1998806828, 1993951623, 1989021348,
    1984016187, 1978936329, 1973781966, 1968553290, 1963250500, 1957873794, 1952423376, 1946899449,
    1941302224, 1935631909, 1929888719, 1924072869, 1918184579, 1912224071, 1906191569, 1900087299,
    1893911493, 1887664381, 1881346200, 1874957188, 1868497584, 1861967633, 1855367579, 1848697672,
    1841958163, 1835149305, 1828271354, 1821324571, 1814309215, 1807225552, 1800073847, 1792854371,
    1785567395, 1778213193, 1770792043, 1763304223, 1755750016, 1748129706, 1740443579, 1732691926,
    1724875039, 1716993210, 1709046738, 1701035921, 1692961061, 1684822462, 1676620430, 1668355275,
    1660027307, 1651636840, 1643184190, 1634669674, 1626093615, 1617456334, 1608758156, 1599999410,
    1591180424, 1582301532, 1573363067, 1564365365, 1555308767, 1546193611, 1537020242, 1527789006,
    1518500249, 1509154321, 1499751575, 1490292363, 1480777043, 1471205973, 1461579512, 1451898024,
    1442161873, 1432371425, 1422527049, 1412629116, 1402677998, 1392674071, 1382617709, 1372509293,
    1362349203, 1352137821, 1341875532, 1331562722, 1321199779, 1310787094, 1300325059, 1289814067,
    1279254514, 1268646799, 1257991319, 1247288476, 1236538674, 1225742317, 1214899812, 1204011566,
    1193077990, 1182099495, 1171076494, 1160009404, 1148898639, 1137744620, 1126547764, 1115308495,
    1104027236, 1092704410, 1081340444, 1069935767, 1058490807, 1047005996, 1035481765, 1023918549,
    1012316783, 1000676904, 988999350, 977284561, 965532977, 953745042, 941921199, 930061893,
    918167571, 906238680, 894275670, 882278991, 870249094, 858186434, 846091463, 833964637,
    821806412, 809617248, 797397601, 785147933, 772868705, 760560379, 748223418, 735858286,
    723465451, 711045377, 698598532, 686125386, 673626407, 661102067, 648552837, 635979189,
    623381597, 610760535, 598116478, 585449902, 572761285, 560051103, 547319836, 534567962,
    521795962, 509004317, 496193509, 483364018, 470516330, 457650927, 444768293, 431868914,
    418953276, 406021864, 393075166, 380113668, 367137860, 354148229, 341145265, 328129456,
    315101294, 302061268, 289009870, 275947591, 262874923, 249792357, 236700387, 223599506,
    210490205, 197372981, 184248325, 171116732, 157978697, 144834714, 131685278, 118530884,
    105372028, 92209204, 79042909, 65873638, 52701886, 39528151, 26352927, 13176711,
    0, -13176711, -26352927, -39528151, -52701886, -65873638, -79042909, -92209204,
    -105372028, -118530884, -131685278, -144834714, -157978697, -171116732, -184248325, -197372981,
    -210490205, -223599506, -236700387, -249792357, -262874923, -275947591, -289009870, -302061268,
    -315101294, -328129456, -341145265, -354148229, -367137860, -380113668, -393075166, -406021864,
    -418953276, -431868914, -444768293, -457650927, -470516330, -483364018, -496193509, -509004317,
    -521795962, -534567962, -547319836, -560051103, -572761285, -585449902, -598116478, -610760535,
    -623381597, -635979189, -648552837, -661102067, -673626407, -686125386, -698598532, -711045377,
    -723465451, -735858286, -748223418, -760560379, -772868705, -785147933, -797397601, -809617248,
    -821806412, -833964637, -846091463, -858186434, -870249094, -882278991, -894275670, -906238680,
    -918167571, -930061893, -941921199, -953745042, -965532977, -977284561, -988999350, -1000676904,
    -1012316783, -1023918549, -1035481765, -1047005996, -1058490807, -1069935767, -1081340444, -1092704410,
    -1104027236, -1115308495, -1126547764, -1137744620, -1148898639, -1160009404, -1171076494, -1182099495,
    -1193077990, -1204011566, -1214899812, -1225742317, -1236538674, -1247288476, -1257991319, -1268646799,
    -1279254514, -1289814067, -1300325059, -1310787094, -1321199779, -1331562722, -1341875532, -1352137821,
    -1362349203, -1372509293, -1382617709, -1392674071, -1402677998, -1412629116, -1422527049, -1432371425,
    -1442161873, -1451898024, -1461579512, -1471205973, -1480777043, -1490292363, -1499751575, -1509154321,
    -1518500249, -1527789006, -1537020242, -1546193611, -1555308767, -1564365365, -1573363067, -1582301532,
    -1591180424, -1599999410, -1608758156, -1617456334, -1626093615, -1634669674, -1643184190, -1651636840,
    -1660027307, -1668355275, -1676620430, -1684822462, -1692961061, -1701035921, -1709046738, -1716993210,
    -1724875039, -1732691926, -1740443579, -1748129706, -1755750016, -1763304223, -1770792043, -1778213193,
    -1785567395, -1792854371, -1800073847, -1807225552, -1814309215, -1821324571, -1828271354, -1835149305,
    -1841958163, -1848697672, -1855367579, -1861967633, -1868497584, -1874957188, -1881346200, -1887664381,
    -1893911493, -1900087299, -1906191569, -1912224071, -1918184579, -1924072869, -1929888719, -1935631909,
    -1941302224, -1946899449, -1952423376, -1957873794, -1963250500, -1968553290, -1973781966, -1978936329,
    -1984016187, -1989021348, -1993951623, -1998806828, -2003586778, -2008291294, -2012920199, -2017473319,
    -2021950482, -2026351520, -2030676267, -2034924560, -2039096240, -2043191148, -2047209132, -2051150039,
    -2055013722, -2058800034, -2062508834, -2066139982, -2069693340, -2073168776, -2076566158, -2079885359,
    -2083126253, -2086288718, -2089372636, -2092377891, -2095304368, -2098151959, -2100920555, -2103610052,
    -2106220350, -2108751350, -2111202957, -2113575078, -2115867624, -2118080509, -2120213650, -2122266965,
    -2124240379, -2126133816, -2127947205, -2129680478, -2131333570, -2132906418, -2134398964, -2135811151,
    -2137142926, -2138394238, -2139565041, -2140655291, -2141664947, -2142593969, -2143442325, -2144209981,
    -2144896908, -2145503082, -2146028478, -2146473078, -2146836865, -2147119824, -2147321945, -2147443221,
    -2147483647, -2147443221, -2147321945, -2147119824, -2146836865, -2146473078, -2146028478, -2145503082,
    -2144896908, -2144209981, -2143442325, -2142593969, -2141664947, -2140655291, -2139565041, -2138394238,
    -2137142926, -2135811151, -2134398964, -2132906418, -2131333570, -2129680478, -2127947205, -2126133816,
    -2124240379, -2122266965, -2120213650, -2118080509, -2115867624, -2113575078, -2111202957, -2108751350,
    -2106220350, -2103610052, -2100920555, -2098151959, -2095304368, -2092377891, -2089372636, -2086288718,
    -2083126253, -2079885359, -2076566158, -2073168776, -2069693340, -2066139982, -2062508834, -2058800034,
    -2055013722, -2051150039, -2047209132, -2043191148, -2039096240, -2034924560, -2030676267, -2026351520,
    -2021950482, -2017473319, -2012920199, -2008291294, -2003586778, -1998806828, -1993951623, -1989021348,
    -1984016187, -1978936329, -1973781966, -1968553290, -1963250500, -1957873794, -1952423376, -1946899449,
    -1941302224, -1935631909, -1929888719, -1924072869, -1918184579, -1912224071, -1906191569, -1900087299,
    -1893911493, -1887664381, -1881346200, -1874957188, -1868497584, -1861967633, -1855367579, -1848697672,
    -1841958163, -1835149305, -1828271354, -1821324571, -1814309215, -1807225552, -1800073847, -1792854371,
    -1785567395, -1778213193, -1770792043, -1763304223, -1755750016, -1748129706, -1740443579, -1732691926,
    -1724875039, -1716993210, -1709046738, -1701035921, -1692961061, -1684822462, -1676620430, -1668355275,
    -1660027307, -1651636840, -1643184190, -1634669674, -1626093615, -1617456334, -1608758156, -1599999410,
    -1591180424, -1582301532, -1573363067, -1564365365, -1555308767, -1546193611, -1537020242, -1527789006,
    -1518500249, -1509154321, -1499751575, -1490292363, -1480777043, -1471205973, -1461579512, -1451898024,
    -1442161873, -1432371425, -1422527049, -1412629116, -1402677998, -1392674071, -1382617709, -1372509293,
    -1362349203, -1352137821, -1341875532, -1331562722, -1321199779, -1310787094, -1300325059, -1289814067,
    -1279254514, -1268646799, -1257991319, -1247288476, -1236538674, -1225742317, -1214899812, -1204011566,
    -1193077990, -1182099495, -1171076494, -1160009404, -1148898639, -1137744620, -1126547764, -1115308495,
    -1104027236, -1092704410, -1081340444, -1069935767, -1058490807, -1047005996, -1035481765, -1023918549,
    -1012316783, -1000676904, -988999350, -977284561, -965532977, -953745042, -941921199, -930061893,
    -918167571, -906238680, -894275670, -882278991, -870249094, -858186434, -846091463, -833964637,
    -821806412, -809617248, -797397601, -785147933, -772868705, -760560379, -748223418, -735858286,
    -723465451, -711045377, -698598532, -686125386, -673626407, -661102067, -648552837, -635979189,
    -623381597, -610760535, -598116478, -585449902, -572761285, -560051103, -547319836, -534567962,
    -521795962, -509004317, -496193509, -483364018, -470516330, -457650927, -444768293, -431868914,
    -418953276, -406021864, -393075166, -380113668, -367137860, -354148229, -341145265, -328129456,
    -315101294, -302061268, -289009870, -275947591, -262874923, -249792357, -236700387, -223599506,
    -210490205, -197372981, -184248325, -171116732, -157978697, -144834714, -131685278, -118530884,
    -105372028, -92209204, -79042909, -65873638, -52701886, -39528151, -26352927, -13176711
  >>

\* the ADSR parameters sequence_events gives every event, for the sample
\* rates the model uses (the float products are exact for them)
CompiledEnvelope(sample_rate) ==
  [attack_samples      |-> (sample_rate * 5) \div 100,
   decay_samples       |-> (sample_rate * 2) \div 10,
   sustain_level       |-> 1288490240,   \* (int32_t)(0.6f * 0x7FFFFFFF)
   release_samples     |-> sample_rate \div 2,
   current_level       |-> AUDIBLE_THRESHOLD,
   release_start_level |-> 0,
   release_coeff       |-> 0,
   min_release_samples |-> (sample_rate * 2) \div 100,
   phase               |-> ADSR_ATTACK]

\* the event sequence_events builds for a note that starts at start_sample
\* and sounds for duration_samples
CompiledEvent(start_sample, duration_samples, instrument, volume_scale, phase_increment, sample_rate) ==
  [start_sample     |-> start_sample,
   duration_samples |-> duration_samples,
   release_sample   |-> AddU32(start_sample, duration_samples),
   num_partials     |-> 1,
   instrument       |-> instrument,
   volume_scale     |-> volume_scale,
   partials         |-> << [phase_accum     |-> 0,
                            phase_increment |-> phase_increment,
                            amplitude       |-> Q31_ONE] >>,
   envelope_state   |-> CompiledEnvelope(sample_rate)]

AdsrLevel(es) == [state |-> es, level |-> es.current_level]
PluckLevel(es) == [state |-> es, level |-> PluckView(es).current_level]

\* the envelope call of generate_event_sample: the new envelope state and
\* the level the envelope function returns
EnvelopeCall(event, samples_since_start, samples_until_release) ==
  CASE InstrumentEnvelope(event.instrument) = "adsr_envelope" ->
         AdsrLevel(adsr_envelope(event.envelope_state, samples_since_start,
                                 samples_until_release))
    [] InstrumentEnvelope(event.instrument) = "pluck_envelope" ->
         PluckLevel(pluck_envelope(event.envelope_state, samples_since_start,
                                   samples_until_release))
    [] OTHER -> [state |-> event.envelope_state, level |-> Q31_ONE]

\* one partial: the table lookup, scaled by the partial's amplitude
PartialSample(p) ==
  MulShift31(sine_table[((p.phase_accum \div TwoTo22) % SINE_TABLE_SIZE) + 1],
             p.amplitude)

\* faulty variant: the increment is advanced as well
AdvancePhase_increment(p) ==
  [p EXCEPT !.phase_accum = AddU32(p.phase_accum, p.phase_increment),
            !.phase_increment = AddU32(p.phase_increment, p.phase_increment)]

\* p->phase_accum += p->phase_increment
AdvancePhase(p) ==
  [p EXCEPT !.phase_accum = AddU32(p.phase_accum, p.phase_increment)]

\* the loop over the partials: the summed wave sample and the partials with
\* their phase accumulators advanced
RECURSIVE PartialsLoop(_, _, _, _)
PartialsLoop(partials, num_partials, i, event_sample) ==
  IF i >= num_partials THEN [partials |-> partials, event_sample |-> event_sample]
  ELSE PartialsLoop([partials EXCEPT ![i + 1] = AdvancePhase(partials[i + 1])],
                    num_partials, i + 1,
                    event_sample + PartialSample(partials[i + 1]))

\* faulty variant: the Q1.31 sample is shifted by 15 bits, not by 16
ScaleSample_q15(event, env, mixed) ==
  [event  |-> [event EXCEPT !.envelope_state = env.state,
                            !.partials = mixed.partials],
   sample |-> ToInt16(MulShift31(MulShift31(mixed.event_sample, env.level),
                                 event.volume_scale) \div TwoTo15)]

\* envelope, then volume, then Q1.31 -> S16
ScaleSample(event, env, mixed) ==
  [event  |-> [event EXCEPT !.envelope_state = env.state,
                            !.partials = mixed.partials],
   sample |-> ToInt16(MulShift31(MulShift31(mixed.event_sample, env.level),
                                 event.volume_scale) \div TwoTo16)]

generate_event_sample(event, current_sample_index) ==
  ScaleSample(event,
              EnvelopeCall(event, current_sample_index - event.start_sample,
                           event.release_sample - current_sample_index),
              PartialsLoop(event.partials, event.num_partials, 0, 0))

get_current_envelope_level(event) ==
  CASE InstrumentEnvelope(event.instrument) = "adsr_envelope" ->
         event.envelope_state.current_level
    [] InstrumentEnvelope(event.instrument) = "pluck_envelope" ->
         PluckView(event.envelope_state).current_level
    [] OTHER -> Q31_ONE

----------------------------------------------------------------------------
(* The sequencer callback.  The loops work on a record w that carries the  *)
(* sequencer state (seq), the buffer writes made so far (writes) and the   *)
(* playback log (log).                                                     *)

\* faulty variant: an event is taken one sample before its start
EventIsDue_early(s) ==
  /\ s.next_event_index < Len(s.events)
  /\ s.events[s.next_event_index + 1].start_sample <= s.current_sample_index + 1

\* the while condition of the activation step
EventIsDue(s) ==
  /\ s.next_event_index < Len(s.events)
  /\ s.events[s.next_event_index + 1].start_sample <= s.current_sample_index

HasFreeSlot(s) == s.num_active < MAX_SIMULTANEOUS_EVENTS

\* the body of the activation loop for event e = &events.data[next_event_index]
ActivateOne(w, e) ==
  IF HasFreeSlot(w.seq)
    THEN [w EXCEPT !.seq.active_events[w.seq.num_active + 1] = e,
                   !.seq.num_active = @ + 1,
                   !.seq.next_event_index = @ + 1,
                   !.log.activations[e] = @ + 1,
                   !.log.activated_at[e] = w.seq.current_sample_index,
                   !.log.reactivated = @ \/ e \in w.log.evicted]
    ELSE [w EXCEPT !.seq.next_event_index = @ + 1,
                   !.log.skipped = @ \cup {e}]

\* faulty variant: the activation loop waits for a free slot
RECURSIVE ActivateEvents_stall(_)
ActivateEvents_stall(w) ==
  IF EventIsDue(w.seq) /\ HasFreeSlot(w.seq)
    THEN ActivateEvents_stall(ActivateOne(w, w.seq.next_event_index + 1))
    ELSE w

\* step 1: activate the events that are due
RECURSIVE ActivateEvents(_)
ActivateEvents(w) ==
  IF EventIsDue(w.seq)
    THEN ActivateEvents(ActivateOne(w, w.seq.next_event_index + 1))
    ELSE w

\* the sequencer after event e has generated its sample g
StoreEvent(s, e, g) == [s EXCEPT !.events[e] = g.event]

RECURSIVE MixEvents(_, _, _)

\* faulty variant: the event's sample replaces the sum
MixInto_assign(s, j, mixed_sample, e, g) ==
  MixEvents(StoreEvent(s, e, g), j + 1, g.sample)

\* mixed_sample += generate_event_sample(...)
MixInto(s, j, mixed_sample, e, g) ==
  MixEvents(StoreEvent(s, e, g), j + 1, mixed_sample + g.sample)

\* step 2: mix one sample from active_events[j .. num_active - 1]
MixEvents(s, j, mixed_sample) ==
  IF j >= s.num_active THEN [seq |-> s, mixed_sample |-> mixed_sample]
  ELSE MixInto(s, j, mixed_sample, s.active_events[j + 1],
               generate_event_sample(s.events[s.active_events[j + 1]],
                                     s.current_sample_index))

\* buffer[i] = (int16_t)mixed_sample; the write keeps the 32-bit sum too
WriteSample(w, i, m) ==
  [w EXCEPT !.seq = m.seq,
            !.writes = Append(@, [index |-> i,
                                  value |-> ToInt16(m.mixed_sample),
                                  mixed |-> m.mixed_sample,
                                  active |-> m.seq.num_active,
                                  at    |-> m.seq.current_sample_index])]

\* faulty variant: the threshold method for every envelope type
ShouldEvict_threshold(event, current_sample_index) ==
  get_current_envelope_level(event) < AUDIBLE_THRESHOLD

\* the eviction test of step 3
ShouldEvict(event, current_sample_index) ==
  IF InstrumentEnvelope(event.instrument) = "adsr_envelope"
    THEN /\ event.release_sample - current_sample_index <= 0
         /\ event.envelope_state.current_level = 0
    ELSE get_current_envelope_level(event) < AUDIBLE_THRESHOLD

\* active_events[j] = active_events[num_active - 1]; num_active--
SwapRemove(w, j) ==
  [w EXCEPT !.seq.active_events[j + 1] = w.seq.active_events[w.seq.num_active],
            !.seq.num_active = @ - 1,
            !.log.evicted = @ \cup {w.seq.active_events[j + 1]}]

\* step 3: examine active_events[j], then j - 1, ... 0
RECURSIVE EvictEvents(_, _)
EvictEvents(w, j) ==
  IF j < 0 THEN w
  ELSE IF ShouldEvict(w.seq.events[w.seq.active_events[j + 1]],
                      w.seq.current_sample_index)
    THEN EvictEvents(SwapRemove(w, j), j - 1)
    ELSE EvictEvents(w, j - 1)

\* faulty variant: the index moves by two
NextSampleIndex_skip(current_sample_index) == current_sample_index + 2

\* step 4
NextSampleIndex(current_sample_index) == current_sample_index + 1

AdvanceSample(w) == [w EXCEPT !.seq.current_sample_index = NextSampleIndex(@)]

\* faulty variant: the loop starts one below the last active event
EvictStep_short(w) == EvictEvents(w, w.seq.num_active - 2)

EvictStep(w) == EvictEvents(w, w.seq.num_active - 1)

MixStep(w, i) == WriteSample(w, i, MixEvents(w.seq, 0, 0))

\* faulty variant: events are evicted at the first sample of a buffer only
SampleStep_first(w, i) ==
  AdvanceSample(IF i = 0 THEN EvictStep(MixStep(ActivateEvents(w), i))
                         ELSE MixStep(ActivateEvents(w), i))

\* one iteration of the sample loop
SampleStep(w, i) == AdvanceSample(EvictStep(MixStep(ActivateEvents(w), i)))

\* faulty variant: the loop runs once more
LoopContinues_over(i, num_samples) == i <= num_samples

\* the for condition of the sample loop
LoopContinues(i, num_samples) == i < num_samples

RECURSIVE SampleLoop(_, _, _)
SampleLoop(w, i, num_samples) ==
  IF LoopContinues(i, num_samples)
    THEN SampleLoop(SampleStep(w, i), i + 1, num_samples)
    ELSE w

\* faulty variant: the index has to pass the end of the array
SongComplete_strict(s) == s.num_active = 0 /\ s.next_event_index > Len(s.events)

\* faulty variant: completion ignores the events still to come
SongComplete_idle(s) == s.num_active = 0

\* the completion test after the loop
SongComplete(s) == s.num_active = 0 /\ s.next_event_index >= Len(s.events)

CallbackReturn(w) ==
  [seq      |-> IF SongComplete(w.seq) THEN [w.seq EXCEPT !.completed = TRUE]
                                       ELSE w.seq,
   writes   |-> w.writes,
   log      |-> w.log,
   continue |-> ~SongComplete(w.seq)]

\* sequencer_callback(buffer, num_samples, seq): the state it leaves, the
\* buffer writes it made, its return value and the playback log
CallbackResult(s, log, num_samples) ==
  CallbackReturn(SampleLoop([seq |-> s, writes |-> <<>>, log |-> log],
                            0, num_samples))

----------------------------------------------------------------------------
(* Bounds of the model *)

MaxStart == 2          \* start samples 0 .. MaxStart
MaxDuration == 2       \* durations 0 and MaxDuration
MaxEvents == 2         \* events in an enumerated song
MaxNumSamples == 2     \* samples asked for by one invocation
CrowdExtra == 2        \* events beyond a full active set in a crowded song
TailSamples == 24      \* samples played beyond the last note's release

MaxSampleIndex == MaxStart + MaxDuration + TailSamples

----------------------------------------------------------------------------
(* Songs: event arrays as sequence_events compiles them *)

Instruments == {"pluck sine", "pluck square"}

TestVolume == 80530640       \* (int32_t)(0.3f * 0x10000000)
TestPhaseIncrement == 25480118   \* C4 at 44100 Hz

LowRate == 20          \* attack 1, decay 4, release 10 samples
CdRate == 44100

EventChoices(sample_rate, instruments) ==
  { CompiledEvent(s, d, i, TestVolume, TestPhaseIncrement, sample_rate) :
      s \in 0 .. MaxStart, d \in {0, MaxDuration}, i \in instruments }

IsSorted(events) ==
  \A k \in 1 .. Len(events) - 1 : events[k].start_sample <= events[k + 1].start_sample

SortedArrays(choices) ==
  { a \in UNION { [1 .. k -> choices] : k \in 0 .. MaxEvents } : IsSorted(a) }

\* MAX_SIMULTANEOUS_EVENTS notes at sample 0, of which `plucked` are pluck
\* square, followed by CrowdExtra notes at sample `late`
CrowdSong(plucked, late) ==
  [k \in 1 .. MAX_SIMULTANEOUS_EVENTS + CrowdExtra |->
     CompiledEvent(IF k <= MAX_SIMULTANEOUS_EVENTS THEN 0 ELSE late,
                   MaxDuration,
                   IF k <= plucked THEN "pluck square" ELSE "pluck sine",
                   TestVolume, TestPhaseIncrement, LowRate)]

\* events whose note had no instrument (event.instrument = note->instrument
\* is null), alone or beside a pluck sine note at sample 0
UnvoicedChoices ==
  EventChoices(LowRate, {"NULL"})
  \cup { CompiledEvent(0, MaxDuration, "pluck sine", TestVolume,
                       TestPhaseIncrement, LowRate) }

Songs ==
  { [events |-> a, sample_rate |-> LowRate] :
      a \in SortedArrays(EventChoices(LowRate, Instruments)) }
  \cup
  { [events |-> a, sample_rate |-> CdRate] :
      a \in SortedArrays(EventChoices(CdRate, {"pluck square"})) }
  \cup
  { [events |-> CrowdSong(p, l), sample_rate |-> LowRate] :
      p \in {0, 1}, l \in {0, 1} }
  \cup
  { [events |-> a, sample_rate |-> LowRate] : a \in SortedArrays(UnvoicedChoices) }

\* the sequencer state the song constructors build (calloc, then the fields)
NewSequencer(song) ==
  [events               |-> song.events,
   sample_rate          |-> song.sample_rate,
   current_sample_index |-> 0,
   next_event_index     |-> 0,
   active_events        |-> [j \in 1 .. MAX_SIMULTANEOUS_EVENTS |-> NULL],
   num_active           |-> 0,
   completed            |-> FALSE]

NewLog(song) ==
  [activations  |-> [e \in 1 .. Len(song.events) |-> 0],
   activated_at |-> [e \in 1 .. Len(song.events) |-> -1],
   evicted      |-> {},
   reactivated  |-> FALSE,
   skipped      |-> {}]

NoCall(song) ==
  [num_samples      |-> 0,
   returned         |-> "none",
   start_index      |-> 0,
   completed_before |-> FALSE,
   writes           |-> <<>>,
   stops            |-> 0,
   log              |-> NewLog(song)]

NoSong == [events |-> <<>>, sample_rate |-> LowRate]
IdleCtx == [callback |-> NULL, user_data |-> NULL, playing |-> FALSE]

\* the process handler at rest, nothing recorded
IdleDrv ==
  [pc               |-> "idle",
   n_samples        |-> 0,
   continue_playing |-> TRUE,
   buffer           |-> "none",
   finished         |-> FALSE,
   calls_after_stop |-> 0,
   ops              |-> {},
   stop_returned    |-> FALSE,
   freed            |-> FALSE,
   freed_access     |-> FALSE]

\* no call of note_to_absolute_semitone has been made
IdleThy == [pc |-> "idle"]

\* no call of sequence_events has been made
IdleCmp == [pc |-> "idle"]

\* no input handed to the parser
IdlePrs ==
  [input              |-> <<>>,
   p                  |-> 1,
   array              |-> <<>>,
   origins            |-> <<>>,
   tokens             |-> <<>>,
   last_duration      |-> 4,
   chord_counter      |-> 1,
   current_instrument |-> "pluck sine",
   token              |-> 0,
   was                |-> [last_duration |-> 4, chord_counter |-> 1,
                           current_instrument |-> "pluck sine"],
   pc                 |-> "done",
   stopped            |-> FALSE,
   before             |-> <<>>]

----------------------------------------------------------------------------
(* Playback: the sequencer driven directly *)

InitSeq ==
  /\ \E song \in Songs : seq = NewSequencer(song) /\ call = NoCall(song)
  /\ ctx = IdleCtx
  /\ drv = IdleDrv
  /\ prs = IdlePrs
  /\ thy = IdleThy
  /\ cmp = IdleCmp

\* what an invocation leaves in the variables
Returned(r, num_samples) ==
  /\ seq' = r.seq
  /\ call' = [num_samples      |-> num_samples,
              returned         |-> IF r.continue THEN "continue" ELSE "stop",
              start_index      |-> seq.current_sample_index,
              completed_before |-> seq.completed,
              writes           |-> r.writes,
              stops            |-> Min(call.stops + (IF r.continue THEN 0 ELSE 1), 2),
              log              |-> r.log]

\* one invocation sequencer_callback(buffer, num_samples, seq)
Invoke(num_samples) ==
  /\ seq.current_sample_index + num_samples <= MaxSampleIndex
  /\ Returned(CallbackResult(seq, call.log, num_samples), num_samples)
  /\ UNCHANGED <<ctx, drv, prs, thy, cmp>>

\* any caller: any number of samples, also after the song has completed
SequencerCallback == \E n \in 0 .. MaxNumSamples : Invoke(n)

NextSeq == SequencerCallback

SpecSeq == InitSeq /\ [][NextSeq]_vars

\* a driver that keeps pulling until the callback first returns stop
DriverPull == call.returned # "stop" /\ \E n \in 1 .. MaxNumSamples : Invoke(n)

NextPlay == DriverPull

SpecPlay == InitSeq /\ [][NextPlay]_vars /\ WF_vars(NextPlay)

----------------------------------------------------------------------------
(* Properties of playback *)

ActiveSet == { seq.active_events[j] : j \in 1 .. seq.num_active }

Invoked == call.returned # "none"

\* C1: a driver that keeps asking for samples (at least one per call) until
\* the callback first returns stop does get stop, gets it once, and
\* completed is true when it does.  Each call moves current_sample_index
\* forward, so a run of the driver is finite; it can end only in a state
\* where stop has been returned, never at the last sample index played.
C1_EventuallyStopsOnce ==
  /\ call.returned = "stop" \/ seq.current_sample_index < MaxSampleIndex
  /\ Invoked => seq.current_sample_index > call.start_index
  /\ call.stops <= 1
  /\ call.returned = "stop" => seq.completed /\ call.stops = 1

\* every event has been taken up, and one without an instrument is still
\* active TailSamples after its release: the callback goes on returning
\* continue
C1_Witness ==
  /\ call.returned = "continue"
  /\ seq.next_event_index = Len(seq.events)
  /\ \E e \in ActiveSet :
       /\ seq.events[e].instrument = "NULL"
       /\ seq.events[e].release_sample + TailSamples <= seq.current_sample_index

\* the songs in which every event has an instrument do end as C1 says
Voiced == \A e \in 1 .. Len(seq.events) : seq.events[e].instrument # "NULL"

StopsWhenVoiced == Voiced => C1_EventuallyStopsOnce

\* C2: the callback returns stop exactly when, after the last sample of the
\* invocation, no event is active and every event has been consumed; it then
\* has set completed; when it returns continue it leaves completed alone.
C2_StopIffSongComplete ==
  Invoked =>
    /\ (call.returned = "stop") <=>
         (seq.num_active = 0 /\ seq.next_event_index = Len(seq.events))
    /\ call.returned = "stop" => seq.completed
    /\ call.returned = "continue" => seq.completed = call.completed_before

\* a silent gap: nothing is active, a note is still to come, playback continues
C2_Witness ==
  /\ call.returned = "continue"
  /\ seq.num_active = 0
  /\ 0 < seq.next_event_index /\ seq.next_event_index < Len(seq.events)

\* C3: the active set never holds more than MAX_SIMULTANEOUS_EVENTS events;
\* an event that comes due while the set is full is passed over for good:
\* next_event_index moves past every event whose start has been played, and
\* an event passed over is not in the active set and has never entered it.
C3_BoundedActiveSet ==
  /\ 0 <= seq.num_active /\ seq.num_active <= MAX_SIMULTANEOUS_EVENTS
  /\ \A e \in 1 .. Len(seq.events) :
       seq.events[e].start_sample < seq.current_sample_index
         => e <= seq.next_event_index
  /\ \A e \in call.log.skipped :
       /\ e <= seq.next_event_index
       /\ call.log.activations[e] = 0
       /\ e \notin ActiveSet

\* an event was passed over, the set has emptied since, and the song is over
C3_Witness ==
  /\ call.log.skipped # {}
  /\ seq.num_active = 0
  /\ seq.completed

\* C4: an event enters the active set at most once, only when its start
\* sample has come, and never again once it has been evicted.
C4_MonotoneLifeCycle ==
  /\ \A e \in 1 .. Len(seq.events) :
       /\ call.log.activations[e] <= 1
       /\ call.log.activated_at[e] # -1
            => seq.events[e].start_sample <= call.log.activated_at[e]
  /\ \A e \in ActiveSet : seq.events[e].start_sample <= seq.current_sample_index
  /\ ~call.log.reactivated
  /\ ActiveSet \cap call.log.evicted = {}

\* one event has been evicted while a later one is playing
C4_Witness ==
  /\ call.log.evicted # {}
  /\ seq.num_active > 0
  /\ \E e \in ActiveSet : seq.events[e].start_sample > 0

\* C5: an invocation for n samples advances current_sample_index by n, one
\* per sample generated, starting where the previous invocation ended.
C5_IndexAdvancesBySamples ==
  Invoked =>
    /\ seq.current_sample_index = call.start_index + call.num_samples
    /\ \A k \in 1 .. Len(call.writes) :
         call.writes[k].at = call.start_index + (k - 1)

C5_Witness ==
  /\ Invoked /\ call.num_samples = MaxNumSamples /\ call.start_index > 0
  /\ Len(call.writes) = MaxNumSamples

\* C6: an invocation for n samples writes buffer[0], ..., buffer[n-1], each
\* once, and nothing else.
C6_WritesExactlyTheBuffer ==
  Invoked =>
    /\ Len(call.writes) = call.num_samples
    /\ \A k \in 1 .. Len(call.writes) : call.writes[k].index = k - 1

C6_Witness ==
  /\ Invoked /\ call.num_samples = MaxNumSamples
  /\ \E k \in 1 .. Len(call.writes) : call.writes[k].value # 0


----------------------------------------------------------------------------
(* The PipeWire driver.  ctx is the pw_audio_context_t; drv holds the       *)
(* position of the process handler and a record of what has happened.      *)

\* the callback handed to init and the state handed to play
Callback == 1
UserData == 1

DriverSongs == { song \in Songs : Len(song.events) <= 1 }

pipewire_init(callback) ==
  [callback |-> callback, user_data |-> NULL, playing |-> FALSE]

pw_play(c, user_data) == [c EXCEPT !.user_data = user_data, !.playing = TRUE]

pw_stop(c) == [c EXCEPT !.playing = FALSE]

\* faulty variant: resume does not look at user_data
pw_resume_unchecked(c) == [c EXCEPT !.playing = TRUE]

pw_resume(c) == IF c.user_data # NULL THEN [c EXCEPT !.playing = TRUE] ELSE c

\* if (ctx->playing && ctx->callback)
ShouldCall(c) == c.playing /\ c.callback # NULL

\* the writes of on_process after the callback has returned continue_playing
AfterCallback(c, continue_playing) ==
  IF continue_playing THEN c
  ELSE [c EXCEPT !.playing = FALSE, !.user_data = NULL]

InitDriver ==
  /\ \E song \in DriverSongs : seq = NewSequencer(song) /\ call = NoCall(song)
  /\ ctx = pipewire_init(Callback)
  /\ drv = IdleDrv
  /\ prs = IdlePrs
  /\ thy = IdleThy
  /\ cmp = IdleCmp

Alive == drv.pc # "crashed"

\* the record kept of an operation made after the callback has returned stop
Noted(d, op) == IF d.finished THEN [d EXCEPT !.ops = @ \cup {op}] ELSE d

\* the callback has been invoked and has returned
NotedCallback(d, continue_playing) ==
  [d EXCEPT !.buffer = "callback",
            !.finished = @ \/ ~continue_playing,
            !.calls_after_stop = IF d.finished THEN Min(@ + 1, 2) ELSE @,
            !.ops = IF d.finished THEN @ \cup {"process"} ELSE @]

NotedBuffer(d, buffer) == [Noted(d, "process") EXCEPT !.buffer = buffer]

NotedPlay(d) ==
  [d EXCEPT !.finished = FALSE, !.calls_after_stop = 0, !.ops = {},
            !.stop_returned = FALSE]

----------------------------------------------------------------------------
(* The driver's operations, each run to its end before the next begins *)

\* the callback returns r
CallbackDone(r, num_samples) ==
  /\ Returned(r, num_samples)
  /\ ctx' = AfterCallback(ctx, r.continue)
  /\ drv' = NotedCallback(drv, r.continue)
  /\ UNCHANGED <<prs, thy, cmp>>

\* the callback is handed a null user_data and dereferences it
CallbackOnNull ==
  /\ drv' = [NotedCallback(drv, TRUE) EXCEPT !.pc = "crashed"]
  /\ UNCHANGED <<seq, call, ctx, prs, thy, cmp>>

CallCallback(n_samples) ==
  IF ctx.user_data = NULL THEN CallbackOnNull
  ELSE /\ seq.current_sample_index + n_samples <= MaxSampleIndex
       /\ CallbackDone(CallbackResult(seq, call.log, n_samples), n_samples)

FillSilence ==
  /\ drv' = NotedBuffer(drv, "silence")
  /\ UNCHANGED <<seq, call, ctx, prs, thy, cmp>>

OutOfBuffers ==
  /\ drv' = NotedBuffer(drv, "none")
  /\ UNCHANGED <<seq, call, ctx, prs, thy, cmp>>

\* on_process, with its buffer of n_samples samples or with none to dequeue
OnProcess ==
  /\ Alive
  /\ \E dequeued \in BOOLEAN, n_samples \in 1 .. MaxNumSamples :
       IF ~dequeued THEN OutOfBuffers
       ELSE IF ShouldCall(ctx) THEN CallCallback(n_samples)
       ELSE FillSilence

PwPlay ==
  /\ Alive /\ ~drv.freed
  /\ ctx' = pw_play(ctx, UserData)
  /\ drv' = NotedPlay(drv)
  /\ UNCHANGED <<seq, call, prs, thy, cmp>>

PwStop ==
  /\ Alive
  /\ ctx' = pw_stop(ctx)
  /\ drv' = [Noted(drv, "stop") EXCEPT !.stop_returned = TRUE]
  /\ UNCHANGED <<seq, call, prs, thy, cmp>>

PwResume ==
  /\ Alive /\ ~drv.freed
  /\ ctx' = pw_resume(ctx)
  /\ drv' = [Noted(drv, "resume") EXCEPT !.stop_returned = FALSE]
  /\ UNCHANGED <<seq, call, prs, thy, cmp>>

NextDriver == OnProcess \/ PwPlay \/ PwStop \/ PwResume

SpecDriver == InitDriver /\ [][NextDriver]_vars

\* C7: once the callback has returned stop, and until play is called again,
\* on_process does not invoke the callback whatever process, stop and resume
\* operations follow: playing stays false, user_data stays null, and every
\* later buffer is silence.
C7_NoCallbackAfterStop ==
  drv.finished =>
    /\ drv.calls_after_stop = 0
    /\ ~ctx.playing /\ ctx.user_data = NULL
    /\ "process" \in drv.ops => drv.buffer # "callback"
    /\ Alive

\* stop, resume and process have all followed the callback's stop
C7_Witness ==
  /\ drv.finished
  /\ drv.ops = {"process", "stop", "resume"}
  /\ drv.buffer = "silence"
  /\ seq.completed /\ seq.current_sample_index > 0

----------------------------------------------------------------------------
(* The driver with on_process on the audio thread and the host's calls on  *)
(* another: the handler's reads and writes of ctx interleave with stop,    *)
(* resume, play and the host's free of the sequencer state.                *)

\* the audio thread dequeues a buffer and tests ctx->playing && ctx->callback
ProcessBegin ==
  /\ drv.pc = "idle"
  /\ \E dequeued \in BOOLEAN, n_samples \in 1 .. MaxNumSamples :
       drv' = IF ~dequeued THEN NotedBuffer(drv, "none")
              ELSE [drv EXCEPT !.pc = IF ShouldCall(ctx) THEN "call" ELSE "silence",
                               !.n_samples = n_samples]
  /\ UNCHANGED <<seq, call, ctx, prs, thy, cmp>>

\* the state the callback works on has been freed by the host
OnFreedState(d) == [d EXCEPT !.freed_access = @ \/ d.freed]

\* the audio thread enters ctx->callback(samples, n_samples, ctx->user_data)
CallbackEnter ==
  /\ drv.pc = "call"
  /\ \/ /\ ctx.user_data # NULL
        /\ drv' = [OnFreedState(drv) EXCEPT !.pc = "in_callback"]
     \/ /\ ctx.user_data = NULL
        /\ drv' = [drv EXCEPT !.pc = "crashed"]
  /\ UNCHANGED <<seq, call, ctx, prs, thy, cmp>>

\* the callback has run on the sequencer state and returns r
CallbackLeaves(r) ==
  /\ Returned(r, drv.n_samples)
  /\ drv' = [NotedCallback(OnFreedState(drv), r.continue)
               EXCEPT !.pc = "after", !.continue_playing = r.continue]

\* the callback reads memory the host has freed and the process dies
CallbackFaults ==
  /\ drv.freed
  /\ drv' = [OnFreedState(drv) EXCEPT !.pc = "crashed"]
  /\ UNCHANGED <<seq, call>>

CallbackExit ==
  /\ drv.pc = "in_callback"
  /\ seq.current_sample_index + drv.n_samples <= MaxSampleIndex
  /\ \/ CallbackLeaves(CallbackResult(seq, call.log, drv.n_samples))
     \/ CallbackFaults
  /\ UNCHANGED <<ctx, prs, thy, cmp>>

\* the rest of on_process: the writes after the callback, or the memset
ProcessEnd ==
  /\ \/ /\ drv.pc = "after"
        /\ ctx' = AfterCallback(ctx, drv.continue_playing)
        /\ drv' = [drv EXCEPT !.pc = "idle"]
     \/ /\ drv.pc = "silence"
        /\ ctx' = ctx
        /\ drv' = [NotedBuffer(drv, "silence") EXCEPT !.pc = "idle"]
  /\ UNCHANGED <<seq, call, prs, thy, cmp>>

\* the host frees the sequencer state once stop() has returned
FreeUserData ==
  /\ Alive
  /\ drv.stop_returned /\ ~drv.freed
  /\ drv' = [drv EXCEPT !.freed = TRUE]
  /\ UNCHANGED <<seq, call, ctx, prs, thy, cmp>>

AudioThread == ProcessBegin \/ CallbackEnter \/ CallbackExit \/ ProcessEnd

HostThread == PwPlay \/ PwStop \/ PwResume \/ FreeUserData

NextDriverMT == AudioThread \/ HostThread

SpecDriverMT == InitDriver /\ [][NextDriverMT]_vars

\* C8: once stop() has returned, and until resume() or play() is called, no
\* invocation of the callback is in progress and none begins, so the
\* callback never works on sequencer state the host has freed.
C8_StopQuiescesCallback ==
  /\ drv.stop_returned => drv.pc # "in_callback"
  /\ ~drv.freed_access

\* the callback is running on freed state after stop() has returned
C8_Witness ==
  /\ drv.stop_returned /\ drv.freed
  /\ drv.pc = "in_callback"
  /\ drv.freed_access

----------------------------------------------------------------------------
(* The parser.  The input is a sequence of characters read from position   *)
(* 1; the terminating NUL is read at every position past its end.          *)

NUL == ""

MAX_CHORD_SIZE == 8

At(input, p) == IF p >= 1 /\ p <= Len(input) THEN input[p] ELSE NUL

isspace(c) == c \in {" ", "\t", "\n", "\r", "\f"}

Digits == <<"0", "1", "2", "3", "4", "5", "6", "7", "8", "9">>

isdigit(c) == \E k \in 1 .. 10 : Digits[k] = c

DigitValue(c) == (CHOOSE k \in 1 .. 10 : Digits[k] = c) - 1

is_valid_note_name(c) == c \in {"a", "b", "c", "d", "e", "f", "g"} \/ c = "r"

ToInt8(x) == LET m == x % 256 IN IF m >= 128 THEN m - 256 ELSE m

\* the duration test of parse_note and parse_duration_and_modifiers
ValidDuration(duration) == duration \in {1, 2, 4, 8, 16, 32, 64, 128}

TupletOf(c) ==
  CASE c = "t" -> 3 [] c = "q" -> 5 [] c = "x" -> 6 [] c = "s" -> 7
    [] c = "n" -> 9 [] OTHER -> 0

Upper == <<"A", "B", "C", "D", "E", "F", "G", "H", "I", "J", "K", "L", "M",
           "N", "O", "P", "Q", "R", "S", "T", "U", "V", "W", "X", "Y", "Z">>

Lower == <<"a", "b", "c", "d", "e", "f", "g", "h", "i", "j", "k", "l", "m",
           "n", "o", "p", "q", "r", "s", "t", "u", "v", "w", "x", "y", "z">>

tolower(c) ==
  IF \E k \in 1 .. 26 : Upper[k] = c
    THEN Lower[CHOOSE k \in 1 .. 26 : Upper[k] = c]
    ELSE c

strcasecmp(a, b) ==
  IF Len(a) = Len(b) /\ \A k \in 1 .. Len(a) : tolower(a[k]) = tolower(b[k])
    THEN 0 ELSE 1

PluckSineName == <<"p", "l", "u", "c", "k", " ", "s", "i", "n", "e">>

PluckSquareName == <<"p", "l", "u", "c", "k", " ", "s", "q", "u", "a", "r", "e">>

\* faulty variant: the names are compared with their case
lookup_instrument_exact(name) ==
  IF name = PluckSineName THEN "pluck sine"
  ELSE IF name = PluckSquareName THEN "pluck square"
  ELSE "pluck sine"

lookup_instrument(name) ==
  IF strcasecmp(name, PluckSineName) = 0 THEN "pluck sine"
  ELSE IF strcasecmp(name, PluckSquareName) = 0 THEN "pluck square"
  ELSE "pluck sine"

\* note_t note = {0}
EmptyNote ==
  [note_name |-> NUL, accidental |-> 0, octave_shift |-> 0, value |-> 0,
   dotted |-> FALSE, tuplet |-> 0, chord_id |-> 0, instrument |-> "NULL"]

RECURSIVE SkipSpace(_, _)
SkipSpace(input, p) ==
  IF isspace(At(input, p)) THEN SkipSpace(input, p + 1) ELSE p

\* the loops below work on a record n = [note, p]
RECURSIVE ParseAccidentals(_, _)
ParseAccidentals(input, n) ==
  IF At(input, n.p) = "s"
    THEN ParseAccidentals(input, [n EXCEPT !.note.accidental = ToInt8(@ + 1),
                                           !.p = @ + 1])
  ELSE IF At(input, n.p) = "f"
    THEN ParseAccidentals(input, [n EXCEPT !.note.accidental = ToInt8(@ - 1),
                                           !.p = @ + 1])
  ELSE n

RECURSIVE ParseOctaveShifts(_, _)
ParseOctaveShifts(input, n) ==
  IF At(input, n.p) = "'"
    THEN ParseOctaveShifts(input, [n EXCEPT !.note.octave_shift = ToInt8(@ + 1),
                                            !.p = @ + 1])
  ELSE IF At(input, n.p) = ","
    THEN ParseOctaveShifts(input, [n EXCEPT !.note.octave_shift = ToInt8(@ - 1),
                                            !.p = @ + 1])
  ELSE n

\* while (isdigit(*p)) duration = duration * 10 + (*p - '0')
RECURSIVE ParseDigits(_, _)
ParseDigits(input, d) ==
  IF isdigit(At(input, d.p))
    THEN ParseDigits(input, [duration |-> d.duration * 10 + DigitValue(At(input, d.p)),
                             p        |-> d.p + 1])
    ELSE d

\* faulty variant: accidentals are read again after the octave marks
NoteHead_mixed(input, note, p) ==
  ParseAccidentals(input,
    ParseOctaveShifts(input,
      ParseAccidentals(input, [note |-> [note EXCEPT !.note_name = At(input, p)],
                               p    |-> p + 1])))

\* the note name at p, its accidentals and its octave shifts
NoteHead(input, note, p) ==
  ParseOctaveShifts(input,
    ParseAccidentals(input, [note |-> [note EXCEPT !.note_name = At(input, p)],
                             p    |-> p + 1]))

\* the dot and the tuplet marker at p: the note and the position after them
DotAt(input, n) ==
  IF At(input, n.p) = "." THEN [n EXCEPT !.note.dotted = TRUE, !.p = @ + 1]
  ELSE n

TupletAt(input, n) ==
  IF TupletOf(At(input, n.p)) # 0
    THEN [n EXCEPT !.note.tuplet = TupletOf(At(input, n.p)), !.p = @ + 1]
    ELSE n

\* what parse_note hands back: the note, *input_pos and *last_duration
NoteResult(n, last_duration) ==
  [note |-> n.note, input_pos |-> n.p, last_duration |-> last_duration]

FailedNote(note, input_pos, last_duration) ==
  [note |-> note, input_pos |-> input_pos, last_duration |-> last_duration]

\* parse_note from its label parse_duration on, the digits read into d
NoteDuration(input, input_pos, last_duration, n, d) ==
  IF ~isdigit(At(input, n.p))
    THEN NoteResult(TupletAt(input, DotAt(input, n)), last_duration)
  ELSE IF ValidDuration(d.duration)
    THEN NoteResult(TupletAt(input, DotAt(input,
                      [note |-> [n.note EXCEPT !.value = ToInt8(d.duration)],
                       p    |-> d.p])),
                    d.duration)
  ELSE FailedNote(EmptyNote, input_pos, last_duration)

NoteTail(input, input_pos, last_duration, n) ==
  NoteDuration(input, input_pos, last_duration, n,
               ParseDigits(input, [duration |-> 0, p |-> n.p]))

\* parse_note after its whitespace has been skipped up to p
NoteAt(input, input_pos, last_duration, note, p) ==
  IF At(input, p) = NUL THEN FailedNote(note, p, last_duration)
  ELSE IF At(input, p) = "r"
    THEN NoteTail(input, input_pos, last_duration,
                  [note |-> [note EXCEPT !.note_name = "r"], p |-> p + 1])
  ELSE IF ~is_valid_note_name(At(input, p))
    THEN FailedNote(note, input_pos, last_duration)
  ELSE NoteTail(input, input_pos, last_duration, NoteHead(input, note, p))

\* faulty variant: every note starts from the default duration 4
parse_note_fresh(input, input_pos, last_duration) ==
  NoteAt(input, input_pos, last_duration, [EmptyNote EXCEPT !.value = 4],
         SkipSpace(input, input_pos))

parse_note(input, input_pos, last_duration) ==
  NoteAt(input, input_pos, last_duration,
         [EmptyNote EXCEPT !.value = ToInt8(last_duration)],
         SkipSpace(input, input_pos))

\* parse_note_without_duration after its whitespace: the note, *input_pos
\* and the position of the note's name
NoteWithoutDurationAt(input, p) ==
  IF At(input, p) = NUL THEN [note |-> EmptyNote, input_pos |-> p, at |-> p]
  ELSE IF At(input, p) = "r"
    THEN [note |-> [EmptyNote EXCEPT !.note_name = "r"], input_pos |-> p + 1,
          at |-> p]
  ELSE IF ~is_valid_note_name(At(input, p))
    THEN [note |-> EmptyNote, input_pos |-> p, at |-> p]
  ELSE [note      |-> NoteHead(input, EmptyNote, p).note,
        input_pos |-> NoteHead(input, EmptyNote, p).p,
        at        |-> p]

parse_note_without_duration(input, input_pos) ==
  NoteWithoutDurationAt(input, SkipSpace(input, input_pos))

\* the duration parse_duration_and_modifiers settles on, the digits read into d
ChordDuration(input, p, last_duration, d) ==
  IF isdigit(At(input, p)) /\ ValidDuration(d.duration) THEN d.duration
  ELSE last_duration

\* notes[i].value = duration; notes[i].dotted = dotted; notes[i].tuplet = tuplet
ApplyToAll(notes, duration, dotted, tuplet) ==
  [i \in 1 .. Len(notes) |->
     [notes[i] EXCEPT !.value = ToInt8(duration), !.dotted = dotted,
                      !.tuplet = tuplet]]

\* parse_duration_and_modifiers with the digits read into d and the dot
\* looked for at position q
ModifiersAt(input, notes, duration, q) ==
  [notes         |-> ApplyToAll(notes, duration, At(input, q) = ".",
                                TupletOf(At(input, IF At(input, q) = "."
                                                     THEN q + 1 ELSE q))),
   last_duration |-> duration,
   input_pos     |-> (IF At(input, q) = "." THEN q + 1 ELSE q)
                       + (IF TupletOf(At(input, IF At(input, q) = "."
                                                   THEN q + 1 ELSE q)) # 0
                            THEN 1 ELSE 0)]

DurationAndModifiers(input, p, last_duration, notes, d) ==
  ModifiersAt(input, notes, ChordDuration(input, p, last_duration, d),
              IF isdigit(At(input, p)) THEN d.p ELSE p)

parse_duration_and_modifiers(input, input_pos, last_duration, notes) ==
  DurationAndModifiers(input, input_pos, last_duration, notes,
                       ParseDigits(input, [duration |-> 0, p |-> input_pos]))

\* the note loop of parse_chord on c = [notes, ats, p]
RECURSIVE ChordLoop(_, _)
ChordNote(input, c, r) ==
  IF r.note.note_name = NUL THEN [c EXCEPT !.p = r.input_pos]
  ELSE ChordLoop(input, [notes |-> Append(c.notes, r.note),
                         ats   |-> Append(c.ats, r.at),
                         p     |-> SkipSpace(input, r.input_pos)])

ChordLoop(input, c) ==
  IF At(input, c.p) = NUL \/ At(input, c.p) = ">" THEN c
  ELSE IF Len(c.notes) >= MAX_CHORD_SIZE THEN c
  ELSE ChordNote(input, c, parse_note_without_duration(input, c.p))

\* the chord's notes with the positions of their names
WithAts(r, ats) ==
  [notes |-> r.notes, last_duration |-> r.last_duration,
   input_pos |-> r.input_pos, ats |-> ats]

\* parse_chord after its note loop
ChordEnd(input, last_duration, c, q) ==
  IF Len(c.notes) > 0
    THEN WithAts(parse_duration_and_modifiers(input, q, last_duration, c.notes),
                 c.ats)
    ELSE [notes |-> <<>>, last_duration |-> last_duration, input_pos |-> q,
          ats |-> <<>>]

ChordClose(input, last_duration, c) ==
  ChordEnd(input, last_duration, c,
           IF At(input, c.p) = ">" THEN c.p + 1 ELSE c.p)

\* parse_chord at a '<' (parse_music calls it nowhere else)
parse_chord(input, input_pos, last_duration) ==
  ChordClose(input, last_duration,
             ChordLoop(input, [notes |-> <<>>, ats |-> <<>>,
                               p |-> SkipSpace(input, input_pos) + 1]))

----------------------------------------------------------------------------
(* parse_music: prs holds its locals, one step per turn of its main loop.  *)
(* origins[k] is the position of the name of array[k] and tokens[k] the   *)
(* position of the token (the note, or the chord's '<') it came from;      *)
(* before is the                                                           *)
(* array as it was when the last step began, was the sticky locals as     *)
(* they were then and token the position of the token that step read;      *)
(* stopped says the loop was left by its break.                            *)

ParserStart(input) ==
  [input              |-> input,
   p                  |-> 1,
   array              |-> <<>>,
   origins            |-> <<>>,
   tokens             |-> <<>>,
   last_duration      |-> 4,
   chord_counter      |-> 1,
   current_instrument |-> "pluck sine",
   token              |-> 0,
   was                |-> [last_duration |-> 4, chord_counter |-> 1,
                           current_instrument |-> "pluck sine"],
   pc                 |-> "loop",
   stopped            |-> FALSE,
   before             |-> <<>>]

\* the name read after '[': up to 31 characters, ending at ']' or the NUL
RECURSIVE InstrumentName(_, _, _)
InstrumentName(input, p, name) ==
  IF At(input, p) # NUL /\ At(input, p) # "]" /\ Len(name) < 31
    THEN InstrumentName(input, p + 1, Append(name, At(input, p)))
    ELSE name

\* the instrument token whose name starts at q
InstrumentToken(st, q, name) ==
  IF At(st.input, q + Len(name)) = "]"
    THEN [st EXCEPT !.p = q + Len(name) + 1,
                    !.current_instrument = lookup_instrument(name)]
    ELSE [st EXCEPT !.p = q + Len(name)]

\* chord_notes[i].chord_id = ..., .instrument = ...; note_array_push
PushChord(st, r) ==
  IF Len(r.notes) > 0
    THEN [st EXCEPT
            !.p = r.input_pos,
            !.last_duration = r.last_duration,
            !.chord_counter = @ + 1,
            !.array = @ \o [i \in 1 .. Len(r.notes) |->
                              [r.notes[i] EXCEPT
                                 !.chord_id = ToInt16(st.chord_counter),
                                 !.instrument = st.current_instrument]],
            !.origins = @ \o r.ats,
            !.tokens = @ \o [i \in 1 .. Len(r.notes) |-> st.token]]
    ELSE [st EXCEPT !.p = r.input_pos, !.last_duration = r.last_duration]

\* faulty variant: the break throws the parsed notes away
PushNote_discard(st, q, r) ==
  IF r.note.note_name = NUL
    THEN [st EXCEPT !.p = q, !.pc = "done", !.stopped = TRUE,
                    !.array = <<>>, !.origins = <<>>, !.tokens = <<>>]
    ELSE [st EXCEPT
            !.p = r.input_pos,
            !.last_duration = r.last_duration,
            !.array = Append(@, [r.note EXCEPT
                                   !.instrument = st.current_instrument,
                                   !.chord_id = 0]),
            !.origins = Append(@, q),
            !.tokens = Append(@, st.token)]

\* the single note parse_note has handed back, or the break
PushNote(st, q, r) ==
  IF r.note.note_name = NUL
    THEN [st EXCEPT !.p = q, !.pc = "done", !.stopped = TRUE]
    ELSE [st EXCEPT
            !.p = r.input_pos,
            !.last_duration = r.last_duration,
            !.array = Append(@, [r.note EXCEPT
                                   !.instrument = st.current_instrument,
                                   !.chord_id = 0]),
            !.origins = Append(@, q),
            !.tokens = Append(@, st.token)]

\* what the token at q is taken for
TokenKind(input, q) ==
  CASE At(input, q) = NUL -> "end"
    [] At(input, q) = "[" -> "instrument"
    [] At(input, q) = "<" -> "chord"
    [] OTHER -> "note"

\* one turn of the main loop, the whitespace skipped up to q
LoopBody(st, q) ==
  CASE TokenKind(st.input, q) = "end" -> [st EXCEPT !.p = q, !.pc = "done"]
    [] TokenKind(st.input, q) = "instrument" ->
         InstrumentToken(st, q + 1, InstrumentName(st.input, q + 1, <<>>))
    [] TokenKind(st.input, q) = "chord" ->
         PushChord(st, parse_chord(st.input, q, st.last_duration))
    [] OTHER -> PushNote(st, q, parse_note(st.input, q, st.last_duration))

\* the locals as a turn of the loop finds them
Entering(st, q) ==
  [st EXCEPT !.before = st.array,
             !.token = q,
             !.was = [last_duration      |-> st.last_duration,
                      chord_counter      |-> st.chord_counter,
                      current_instrument |-> st.current_instrument]]

ParseStep(st) ==
  LoopBody(Entering(st, SkipSpace(st.input, st.p)), SkipSpace(st.input, st.p))

RECURSIVE ParseLoop(_)
ParseLoop(st) == IF st.pc = "done" THEN st ELSE ParseLoop(ParseStep(st))

parse_music(input) == ParseLoop(ParserStart(input)).array

----------------------------------------------------------------------------
(* Inputs of the parser *)

MaxLen == 4            \* characters in an enumerated input
ChordExtra == 1        \* notes beyond MAX_CHORD_SIZE in a long chord

Alphabet == {"c", "r", "s", "3", "8", ".", " ", "<", ">", "x", "[", "]"}

\* '<', size notes c, '>', a space and a note
LongChord(size) ==
  <<"<">> \o [i \in 1 .. size |-> "c"] \o <<">", " ", "c">>

\* an instrument token and a note
WithInstrument(name) == <<"[">> \o name \o <<"]", "c">>

\* the duration literals: the valid ones and some that are not
Literals ==
  { <<"1">>, <<"2">>, <<"4">>, <<"8">>, <<"1", "6">>, <<"3", "2">>,
    <<"6", "4">>, <<"1", "2", "8">>,
    <<"0">>, <<"3">>, <<"1", "2">>, <<"1", "2", "9">>, <<"2", "5", "6">> }

\* a note or a chord with a duration literal, then a note and a chord
\* that leave the duration out
WithLiteral(literal) ==
  { <<"c">> \o literal \o <<" ", "c", "<", "e", ">">>,
    <<"<", "c", "e", ">">> \o literal \o <<".", "c", "<", "e", ">">>,
    <<"r", "8", "<", "c", "e", ">">> \o literal \o <<"c">> }

\* note heads with their marks in either order, and the tuplet markers
Heads ==
  { <<"c", "s", "'">>, <<"c", "'", "s">>, <<"c", "f", ",", ",">>,
    <<"c", ",", "f">>, <<"r", "8", ".", "n">>, <<"c", "s", "s", "t">>,
    <<"c", "'", "q">>, <<"c", "n">>, <<"<", "c", "s", "e", "'", ">", "n">> }

\* an oversize chord with a duration after its '>'
LongChords ==
  { LongChord(MAX_CHORD_SIZE + extra) : extra \in 0 .. ChordExtra }
  \cup { <<"<">> \o [i \in 1 .. MAX_CHORD_SIZE + extra |-> "c"]
           \o <<">", "8", ".", " ", "c">> : extra \in 0 .. ChordExtra }

\* instrument tokens: known names in either case, unknown, unclosed and
\* overlong names, and one token after another
Named ==
  { WithInstrument(PluckSquareName),
    WithInstrument([PluckSquareName EXCEPT ![1] = "P"]),
    WithInstrument(PluckSquareName) \o <<"<", "c", "e", ">">>
      \o WithInstrument([PluckSineName EXCEPT ![7] = "S"]),
    WithInstrument([PluckSquareName EXCEPT ![1] = "P"]) \o <<"<", "c", "e", ">">>
      \o WithInstrument(PluckSineName),
    WithInstrument(PluckSquareName) \o WithInstrument(<<"x">>),
    WithInstrument(PluckSquareName) \o <<"[">> \o PluckSineName,
    WithInstrument(PluckSquareName)
      \o WithInstrument([i \in 1 .. 32 |-> "c"]) }

Inputs ==
  UNION { [1 .. k -> Alphabet] : k \in 0 .. MaxLen }
  \cup LongChords
  \cup Named
  \cup UNION { WithLiteral(literal) : literal \in Literals }
  \cup Heads

InitParser ==
  /\ \E input \in Inputs : prs = ParserStart(input)
  /\ seq = NewSequencer(NoSong) /\ call = NoCall(NoSong)
  /\ ctx = IdleCtx
  /\ drv = IdleDrv
  /\ thy = IdleThy
  /\ cmp = IdleCmp

\* a turn of the main loop of parse_music on a token of the given kind
LoopTurn(kind) ==
  /\ prs.pc = "loop"
  /\ TokenKind(prs.input, SkipSpace(prs.input, prs.p)) = kind
  /\ prs' = ParseStep(prs)
  /\ UNCHANGED <<seq, call, ctx, drv, thy, cmp>>

ParseEnd == LoopTurn("end")

ParseInstrument == LoopTurn("instrument")

ParseChord == LoopTurn("chord")

ParseNote == LoopTurn("note") /\ ~prs'.stopped

ParseBreak == LoopTurn("note") /\ prs'.stopped

NextParser ==
  ParseEnd \/ ParseInstrument \/ ParseChord \/ ParseNote \/ ParseBreak

SpecParser == InitParser /\ [][NextParser]_vars

----------------------------------------------------------------------------
(* Properties of the parser *)

IsPrefix(a, b) == Len(a) <= Len(b) /\ \A k \in 1 .. Len(a) : a[k] = b[k]

NoteNames(notes) == [k \in 1 .. Len(notes) |-> notes[k].note_name]

\* the input before position p
Before(input, p) == SubSeq(input, 1, p - 1)

\* the input after the first whitespace at or after position p
RECURSIVE AfterNextSpace(_, _)
AfterNextSpace(input, p) ==
  IF p > Len(input) THEN <<>>
  ELSE IF isspace(input[p]) THEN SubSeq(input, p + 1, Len(input))
  ELSE AfterNextSpace(input, p + 1)

\* C9: when parse_music leaves its loop by the break, it stands at a byte
\* that is not whitespace and starts no instrument token, chord or note;
\* everything before that byte was parsed without failure; the array handed
\* back is exactly what the input before that byte parses to, note by note
\* in input order; and no step of the loop, the failing one included, drops
\* or changes a note already in the array.
C9_StopsAtFirstFailure ==
  /\ IsPrefix(prs.before, prs.array)
  /\ prs.pc = "done" /\ prs.stopped =>
       /\ prs.p <= Len(prs.input)
       /\ TokenKind(prs.input, prs.p) = "note"
       /\ ~isspace(At(prs.input, prs.p))
       /\ parse_note(prs.input, prs.p, prs.last_duration).note.note_name = NUL
       /\ prs.array = prs.before
       /\ ~ParseLoop(ParserStart(Before(prs.input, prs.p))).stopped
       /\ prs.array = parse_music(Before(prs.input, prs.p))
       /\ \A k \in 1 .. Len(prs.array) :
            /\ prs.origins[k] < prs.p
            /\ prs.array[k].note_name = prs.input[prs.origins[k]]
            /\ k > 1 => prs.origins[k - 1] < prs.origins[k]

\* two notes parsed, then a byte that stops the parser with input left over
C9_Witness ==
  /\ prs.pc = "done" /\ prs.stopped
  /\ Len(prs.array) >= 2
  /\ prs.p < Len(prs.input)

\* C10: when a token cannot be parsed, parsing goes on at the next
\* whitespace, so the notes written after that whitespace follow, in the
\* output, the notes parsed before the token.
C10_RecoversAtNextWhitespace ==
  prs.pc = "done" /\ prs.stopped =>
    IsPrefix(NoteNames(parse_music(AfterNextSpace(prs.input, prs.p))),
             NoteNames(SubSeq(prs.array, Len(prs.before) + 1, Len(prs.array))))

\* an invalid duration has stopped the parser and a well-formed note that
\* follows the next whitespace is missing from the output
C10_Witness ==
  /\ prs.pc = "done" /\ prs.stopped
  /\ At(prs.input, prs.p) = "c" /\ At(prs.input, prs.p + 1) = "3"
  /\ parse_music(AfterNextSpace(prs.input, prs.p)) # <<>>
  /\ Len(prs.array) = Len(prs.before)

----------------------------------------------------------------------------
(* Durations *)

PowersOfTwo == {1, 2, 4, 8, 16, 32, 64, 128}

\* the note loop of the chord whose '<' is at t
ChordBody(input, t) ==
  ChordLoop(input, [notes |-> <<>>, ats |-> <<>>, p |-> t + 1])

\* where the duration of the token at t is written: after the head of a
\* note, after the '>' of a chord (after its notes when the '>' is missing);
\* 0 when the token is neither
DurationPosition(input, t) ==
  CASE TokenKind(input, t) = "note" /\ At(input, t) = "r" -> t + 1
    [] TokenKind(input, t) = "note" /\ is_valid_note_name(At(input, t)) ->
         NoteHead(input, EmptyNote, t).p
    [] TokenKind(input, t) = "chord" /\ At(input, ChordBody(input, t).p) = ">" ->
         ChordBody(input, t).p + 1
    [] TokenKind(input, t) = "chord" -> ChordBody(input, t).p
    [] OTHER -> 0

\* the number written at q
LiteralAt(input, q) == ParseDigits(input, [duration |-> 0, p |-> q]).duration

HasLiteral(input, t) ==
  DurationPosition(input, t) > 0 /\ isdigit(At(input, DurationPosition(input, t)))

HasValidLiteral(input, t) ==
  HasLiteral(input, t) /\ LiteralAt(input, DurationPosition(input, t)) \in PowersOfTwo

HasInvalidLiteral(input, t) ==
  HasLiteral(input, t) /\ LiteralAt(input, DurationPosition(input, t)) \notin PowersOfTwo

\* the token the last turn of the loop read is a note, or a chord closed
\* by '>', with a duration literal that is not a power of two up to 128
ReadInvalidLiteral ==
  /\ prs.token > 0
  /\ HasInvalidLiteral(prs.input, prs.token)
  /\ At(prs.input, prs.token) = "<" =>
       At(prs.input, DurationPosition(prs.input, prs.token) - 1) = ">"

\* C11: a note, or a chord, whose duration literal is not one of 1, 2, 4,
\* 8, 16, 32, 64, 128 adds nothing to the output of parse_music: neither
\* the single note nor any member of the chord.
C11_InvalidLiteralRejected ==
  ReadInvalidLiteral => prs.array = prs.before

\* a chord closed by '>' and followed by an invalid literal has put its
\* members into the output
C11_Witness ==
  /\ ReadInvalidLiteral
  /\ At(prs.input, prs.token) = "<"
  /\ Len(prs.array) > Len(prs.before)

\* the notes before array[k] whose note or chord wrote a valid duration
Specifying(k) ==
  { j \in 1 .. k - 1 : HasValidLiteral(prs.input, prs.tokens[j]) }

\* the duration a note without one of its own takes over
Inherited(k) ==
  IF Specifying(k) = {} THEN 4
  ELSE prs.array[CHOOSE j \in Specifying(k) :
                   \A i \in Specifying(k) : i <= j].value

\* C12: a note, or a member of a chord, written without a valid numeric
\* duration has the value of the most recent note or chord before it that
\* wrote a valid one, and 4 when there is none (so the first note has 4 when
\* it writes no duration); a chord whose literal is invalid takes the
\* inherited value too, and what follows it inherits as if the literal had
\* not been written.
C12_StickyDuration ==
  \A k \in 1 .. Len(prs.array) :
    ~HasValidLiteral(prs.input, prs.tokens[k]) =>
      prs.array[k].value = Inherited(k)

\* a note without a duration inherits a value other than 4 across a chord
\* whose literal was invalid
C12_Witness ==
  \E k \in 1 .. Len(prs.array) : \E j \in 1 .. k - 1 :
    /\ ~HasLiteral(prs.input, prs.tokens[k])
    /\ HasInvalidLiteral(prs.input, prs.tokens[j])
    /\ Specifying(j) # {}
    /\ prs.array[k].value = 8

----------------------------------------------------------------------------
(* Note heads *)

SharpThenUp == <<"c", "s", "'">>

UpThenSharp == <<"c", "'", "s">>

\* C13: the accidental and the octave mark of a note head may come in
\* either order: cs' and c's each parse to one note of pitch c with
\* accidental +1 and octave shift +1.
C13_MarksInEitherOrder ==
  prs.pc = "done" /\ prs.input \in {SharpThenUp, UpThenSharp} =>
    /\ Len(prs.array) = 1
    /\ prs.array[1].note_name = "c"
    /\ prs.array[1].accidental = 1
    /\ prs.array[1].octave_shift = 1

\* C13 as the parser has it: accidentals come before octave marks.  cs'
\* parses to one note of pitch c with accidental +1 and octave shift +1;
\* in c's the s after the octave mark is no accidental but the septuplet
\* marker, and the note is a c with accidental 0, octave shift +1 and
\* tuplet 7.
C13_AccidentalsBeforeOctaveMarks ==
  prs.pc = "done" /\ prs.input \in {SharpThenUp, UpThenSharp} =>
    /\ Len(prs.array) = 1
    /\ prs.array[1].note_name = "c"
    /\ prs.array[1].octave_shift = 1
    /\ prs.array[1].accidental = (IF prs.input = SharpThenUp THEN 1 ELSE 0)
    /\ prs.array[1].tuplet = (IF prs.input = SharpThenUp THEN 0 ELSE 7)

\* c's has been parsed to a c one octave up with no accidental, the s taken
\* for the septuplet marker
C13_Witness ==
  /\ prs.pc = "done" /\ prs.input = UpThenSharp
  /\ Len(prs.array) = 1
  /\ prs.array[1].note_name = "c"
  /\ prs.array[1].octave_shift = 1
  /\ prs.array[1].accidental = 0
  /\ prs.array[1].tuplet = 7

----------------------------------------------------------------------------
(* Chords *)

FromChord(k) == At(prs.input, prs.tokens[k]) = "<"

\* array[j] and array[k] were written between the same '<' and '>'
SameChord(j, k) == FromChord(k) /\ prs.tokens[j] = prs.tokens[k]

\* where the dot of the token at t would be: after the digits, if any
DotPosition(input, t) ==
  ParseDigits(input, [duration |-> 0, p |-> DurationPosition(input, t)]).p

DotWritten(input, t) == At(input, DotPosition(input, t)) = "."

TupletWritten(input, t) ==
  TupletOf(At(input, IF DotWritten(input, t) THEN DotPosition(input, t) + 1
                     ELSE DotPosition(input, t)))

\* the chord of array[k] is closed by '>' and a valid duration follows
\* the '>'
ChordLiteral(k) ==
  /\ FromChord(k)
  /\ HasValidLiteral(prs.input, prs.tokens[k])
  /\ At(prs.input, DurationPosition(prs.input, prs.tokens[k]) - 1) = ">"

\* the members of a chord have a positive chord_id, share chord_id, value,
\* dotted flag and tuplet, have the dot and the tuplet written after the
\* chord, and stand together in the array; other notes have chord_id 0
MembersShare ==
  \A k \in 1 .. Len(prs.array) :
    IF FromChord(k)
      THEN /\ prs.array[k].chord_id > 0
           /\ prs.array[k].dotted = DotWritten(prs.input, prs.tokens[k])
           /\ prs.array[k].tuplet = TupletWritten(prs.input, prs.tokens[k])
           /\ \A j \in 1 .. k :
                SameChord(j, k) =>
                  /\ prs.array[j].chord_id = prs.array[k].chord_id
                  /\ prs.array[j].value = prs.array[k].value
                  /\ prs.array[j].dotted = prs.array[k].dotted
                  /\ prs.array[j].tuplet = prs.array[k].tuplet
                  /\ \A i \in j .. k : SameChord(i, k)
      ELSE prs.array[k].chord_id = 0

\* C14: all notes of one chord carry the same positive chord_id, the same
\* value, dotted flag and tuplet, which are those written after the
\* chord's '>', and they stand at consecutive positions of the output;
\* notes outside chords have chord_id 0.
C14_ChordMembersShare ==
  /\ MembersShare
  /\ \A k \in 1 .. Len(prs.array) :
       ChordLiteral(k) =>
         prs.array[k].value =
           LiteralAt(prs.input, DurationPosition(prs.input, prs.tokens[k]))

\* a chord of two members written with the duration 128 is in the output
\* and its members share a value that is not 128
C14_Witness ==
  \E k \in 2 .. Len(prs.array) :
    /\ SameChord(k - 1, k) /\ ChordLiteral(k)
    /\ LiteralAt(prs.input, DurationPosition(prs.input, prs.tokens[k])) = 128
    /\ prs.array[k].value # 128
    /\ prs.array[k - 1].value = prs.array[k].value

\* the position of the first '>' at or after p (past the end if none)
RECURSIVE ClosingAt(_, _)
ClosingAt(input, p) ==
  IF p > Len(input) \/ input[p] = ">" THEN p ELSE ClosingAt(input, p + 1)

\* the input is one of the long chords and has more than MAX_CHORD_SIZE
\* note heads between its '<' and its '>'
Oversize(input) ==
  input \in LongChords /\ ClosingAt(input, 1) > MAX_CHORD_SIZE + 2

\* C15: of a chord written with more than 8 note heads the first 8 are
\* kept as one chord, with the duration and the dot written after '>';
\* the note heads beyond the 8th produce no note; and parsing goes on
\* after the chord, so the note written after it is in the output.
C15_SurplusDropped ==
  prs.pc = "done" /\ Oversize(prs.input) =>
    /\ Len(prs.array) = MAX_CHORD_SIZE + 1
    /\ \A k \in 1 .. MAX_CHORD_SIZE :
         /\ prs.origins[k] = k + 1
         /\ prs.array[k].chord_id = prs.array[1].chord_id
         /\ prs.array[k].chord_id > 0
         /\ prs.array[k].dotted =
              (At(prs.input, ClosingAt(prs.input, 1) + 2) = ".")
         /\ prs.array[k].value =
              (IF isdigit(At(prs.input, ClosingAt(prs.input, 1) + 1))
                 THEN LiteralAt(prs.input, ClosingAt(prs.input, 1) + 1)
                 ELSE 4)
    /\ \A k \in 1 .. Len(prs.array) :
         ~(prs.origins[k] > MAX_CHORD_SIZE + 1
             /\ prs.origins[k] < ClosingAt(prs.input, 1))
    /\ prs.origins[Len(prs.array)] = Len(prs.input)
    /\ prs.array[Len(prs.array)].chord_id = 0

\* the 9th note head of an oversize chord is in the output as a note of
\* its own, the chord's '>' has stopped the parser, and the 8 members do
\* not have the duration written after '>'
C15_Witness ==
  /\ prs.pc = "done" /\ Oversize(prs.input)
  /\ prs.stopped /\ At(prs.input, prs.p) = ">"
  /\ At(prs.input, prs.p + 1) = "8"
  /\ Len(prs.array) = MAX_CHORD_SIZE + 1
  /\ prs.origins[MAX_CHORD_SIZE + 1] = MAX_CHORD_SIZE + 2
  /\ prs.array[MAX_CHORD_SIZE + 1].chord_id = 0
  /\ prs.array[1].value = 4

----------------------------------------------------------------------------
(* The value field *)

\* C16: every note of the output has a value among 1, 2, 4, 8, 16, 32, 64
\* and 128, and a note or chord written with the duration 128 has value
\* 128.
C16_ValueIsPowerOfTwo ==
  \A k \in 1 .. Len(prs.array) :
    /\ prs.array[k].value \in PowersOfTwo
    /\ HasValidLiteral(prs.input, prs.tokens[k]) =>
         prs.array[k].value =
           LiteralAt(prs.input, DurationPosition(prs.input, prs.tokens[k]))

\* a single note written with the duration 128 is in the output with the
\* value -128
C16_Witness ==
  \E k \in 1 .. Len(prs.array) :
    /\ ~FromChord(k)
    /\ LiteralAt(prs.input, DurationPosition(prs.input, prs.tokens[k])) = 128
    /\ prs.array[k].value = -128

----------------------------------------------------------------------------
(* Instruments *)

\* the position of the first ']' at or after p (past the end if none)
RECURSIVE BracketAt(_, _)
BracketAt(input, p) ==
  IF p > Len(input) \/ input[p] = "]" THEN p ELSE BracketAt(input, p + 1)

\* the token that starts with the '[' at t is complete: its ']' is there,
\* after a name of at most 31 characters
CompleteName(input, t) ==
  /\ BracketAt(input, t + 1) <= Len(input)
  /\ BracketAt(input, t + 1) - (t + 1) <= 31

NameWritten(input, t) == SubSeq(input, t + 1, BracketAt(input, t + 1) - 1)

LowerCase(name) == [i \in 1 .. Len(name) |-> tolower(name[i])]

\* the instrument a name stands for
NamedInstrument(name) ==
  IF LowerCase(name) = PluckSquareName THEN "pluck square" ELSE "pluck sine"

\* C17: the current instrument is pluck sine at the start, becomes the
\* instrument named (in any case; pluck sine for an unknown name) by each
\* complete [name] token and changes at nothing else; every note, and every
\* member of a chord, gets the instrument current when it is read.
C17_CurrentInstrument ==
  /\ prs.token = 0 => prs.current_instrument = "pluck sine"
  /\ prs.token > 0 =>
       /\ prs.current_instrument =
            (IF At(prs.input, prs.token) = "[" /\ CompleteName(prs.input, prs.token)
               THEN NamedInstrument(NameWritten(prs.input, prs.token))
               ELSE prs.was.current_instrument)
       /\ \A k \in Len(prs.before) + 1 .. Len(prs.array) :
            prs.array[k].instrument = prs.was.current_instrument
  /\ \A k \in 1 .. Len(prs.array) : \A j \in 1 .. k :
       SameChord(j, k) => prs.array[j].instrument = prs.array[k].instrument

\* after [Pluck square] a chord has been read with pluck square, and a
\* later token has set the instrument of the notes that follow
C17_Witness ==
  \E k \in 2 .. Len(prs.array) - 1 :
    /\ SameChord(k - 1, k)
    /\ prs.array[k].instrument = "pluck square"
    /\ prs.array[k + 1].instrument = "pluck sine"
    /\ At(prs.input, 2) = "P"

----------------------------------------------------------------------------
(* print_note: the characters it writes to stdout *)

is_rest(note) == note.note_name = "r"

\* printf("%d", n)
RECURSIVE DecimalDigits(_)
DecimalDigits(n) ==
  IF n < 10 THEN <<Digits[n + 1]>>
  ELSE Append(DecimalDigits(n \div 10), Digits[(n % 10) + 1])

Decimal(n) == IF n < 0 THEN <<"-">> \o DecimalDigits(-n) ELSE DecimalDigits(n)

\* for (int i = 0; i < count; i++) printf(mark)
Repeated(mark, count) ==
  IF count > 0 THEN [i \in 1 .. count |-> mark] ELSE <<>>

PrintedHead(note) ==
  IF is_rest(note) THEN <<"r">> \o Decimal(note.value)
  ELSE <<note.note_name>>
         \o Repeated("s", note.accidental) \o Repeated("f", -note.accidental)
         \o Repeated("'", note.octave_shift) \o Repeated(",", -note.octave_shift)
         \o Decimal(note.value)

PrintedTuplet(note) ==
  CASE note.tuplet = 3 -> <<"t">>
    [] note.tuplet = 5 -> <<"q">>
    [] note.tuplet = 6 -> <<"x">>
    [] note.tuplet = 7 -> <<"s">>
    [] OTHER -> <<>>

print_note(note) ==
  PrintedHead(note)
    \o (IF note.dotted THEN <<".">> ELSE <<>>)
    \o PrintedTuplet(note)
    \o (IF note.chord_id > 0
          THEN <<"[">> \o Decimal(note.chord_id) \o <<"]">> ELSE <<>>)

\* two notes agree in what the notation writes of a note
SameNotation(a, b) ==
  /\ a.note_name = b.note_name
  /\ a.accidental = b.accidental
  /\ a.octave_shift = b.octave_shift
  /\ a.value = b.value
  /\ a.dotted = b.dotted
  /\ a.tuplet = b.tuplet

\* the text print_note writes for n is parsed to one note, which is n
RoundTrips(n) ==
  /\ Len(parse_music(print_note(n))) = 1
  /\ SameNotation(parse_music(print_note(n))[1], n)

\* C18: every note in the output of parse_music, printed by print_note and
\* parsed again, gives a note with the same pitch, accidental, octave
\* shift, value, dotted flag and tuplet.
C18_RoundTrip ==
  \A k \in 1 .. Len(prs.array) : RoundTrips(prs.array[k])

\* a nonuplet note is in the output and is printed without its marker, so
\* that parsing the text gives a note with tuplet 0
C18_Witness ==
  \E k \in 1 .. Len(prs.array) :
    /\ prs.array[k].tuplet = 9
    /\ prs.array[k].value = 4
    /\ Len(parse_music(print_note(prs.array[k]))) = 1
    /\ parse_music(print_note(prs.array[k]))[1].tuplet = 0

\* the notes print_note and parse_note agree on: every tuplet but the
\* nonuplet, every value but the wrapped 128
PrintableNote(n) == n.tuplet # 9 /\ n.value > 0

RoundTripOfPrintable ==
  \A k \in 1 .. Len(prs.array) :
    PrintableNote(prs.array[k]) => RoundTrips(prs.array[k])

----------------------------------------------------------------------------
(* Music theory: keys and semitones.  A key is the index of its entry in   *)
(* key_signatures (NULL for no key); accidentals are in the order          *)
(* C, D, E, F, G, A, B.                                                    *)

key_signatures ==
  << [name |-> "C major",  accidentals |-> << 0,  0,  0,  0,  0,  0,  0>>],
     [name |-> "G major",  accidentals |-> << 0,  0,  0,  1,  0,  0,  0>>],
     [name |-> "D major",  accidentals |-> << 1,  0,  0,  1,  0,  0,  0>>],
     [name |-> "A major",  accidentals |-> << 1,  0,  0,  1,  1,  0,  0>>],
     [name |-> "E major",  accidentals |-> << 1,  1,  0,  1,  1,  0,  0>>],
     [name |-> "B major",  accidentals |-> << 1,  1,  0,  1,  1,  1,  0>>],
     [name |-> "F# major", accidentals |-> << 1,  1,  1,  1,  1,  1,  0>>],
     [name |-> "C# major", accidentals |-> << 1,  1,  1,  1,  1,  1,  1>>],
     [name |-> "F major",  accidentals |-> << 0,  0,  0,  0,  0,  0, -1>>],
     [name |-> "Bb major", accidentals |-> << 0,  0, -1,  0,  0,  0, -1>>],
     [name |-> "Eb major", accidentals |-> << 0,  0, -1,  0,  0, -1, -1>>],
     [name |-> "Ab major", accidentals |-> << 0, -1, -1,  0,  0, -1, -1>>],
     [name |-> "Db major", accidentals |-> << 0, -1, -1,  0, -1, -1, -1>>],
     [name |-> "Gb major", accidentals |-> <<-1, -1, -1,  0, -1, -1, -1>>],
     [name |-> "Cb major", accidentals |-> <<-1, -1, -1, -1, -1, -1, -1>>],
     [name |-> "A minor",  accidentals |-> << 0,  0,  0,  0,  0,  0,  0>>],
     [name |-> "E minor",  accidentals |-> << 0,  0,  0,  1,  0,  0,  0>>],
     [name |-> "B minor",  accidentals |-> << 1,  0,  0,  1,  0,  0,  0>>],
     [name |-> "F# minor", accidentals |-> << 1,  0,  0,  1,  1,  0,  0>>],
     [name |-> "C# minor", accidentals |-> << 1,  1,  0,  1,  1,  0,  0>>],
     [name |-> "G# minor", accidentals |-> << 1,  1,  0,  1,  1,  1,  0>>],
     [name |-> "D# minor", accidentals |-> << 1,  1,  1,  1,  1,  1,  0>>],
     [name |-> "A# minor", accidentals |-> << 1,  1,  1,  1,  1,  1,  1>>],
     [name |-> "D minor",  accidentals |-> << 0,  0,  0,  0,  0,  0, -1>>],
     [name |-> "G minor",  accidentals |-> << 0,  0, -1,  0,  0,  0, -1>>],
     [name |-> "C minor",  accidentals |-> << 0,  0, -1,  0,  0, -1, -1>>],
     [name |-> "F minor",  accidentals |-> << 0, -1, -1,  0,  0, -1, -1>>],
     [name |-> "Bb minor", accidentals |-> << 0, -1, -1,  0, -1, -1, -1>>],
     [name |-> "Eb minor", accidentals |-> <<-1, -1, -1,  0, -1, -1, -1>>],
     [name |-> "Ab minor", accidentals |-> <<-1, -1, -1, -1, -1, -1, -1>>] >>

c_major == 1

\* faulty variant: the letters are counted from a, not from c
get_key_accidental_from_a(note_name, key) ==
  IF key = NULL THEN 0
  ELSE CASE note_name = "a" -> key_signatures[key].accidentals[1]
         [] note_name = "b" -> key_signatures[key].accidentals[2]
         [] note_name = "c" -> key_signatures[key].accidentals[3]
         [] note_name = "d" -> key_signatures[key].accidentals[4]
         [] note_name = "e" -> key_signatures[key].accidentals[5]
         [] note_name = "f" -> key_signatures[key].accidentals[6]
         [] note_name = "g" -> key_signatures[key].accidentals[7]
         [] OTHER -> 0

get_key_accidental(note_name, key) ==
  IF key = NULL THEN 0
  ELSE CASE note_name = "c" -> key_signatures[key].accidentals[1]
         [] note_name = "d" -> key_signatures[key].accidentals[2]
         [] note_name = "e" -> key_signatures[key].accidentals[3]
         [] note_name = "f" -> key_signatures[key].accidentals[4]
         [] note_name = "g" -> key_signatures[key].accidentals[5]
         [] note_name = "a" -> key_signatures[key].accidentals[6]
         [] note_name = "b" -> key_signatures[key].accidentals[7]
         [] OTHER -> 0

note_name_to_semitone(note_name) ==
  CASE note_name = "c" -> 0
    [] note_name = "d" -> 2
    [] note_name = "e" -> 4
    [] note_name = "f" -> 5
    [] note_name = "g" -> 7
    [] note_name = "a" -> 9
    [] note_name = "b" -> 11
    [] OTHER -> -1

\* key ? get_key_accidental(note->note_name, key) : 0
KeyAccidental(note, key) ==
  IF key # NULL THEN get_key_accidental(note.note_name, key) ELSE 0

note_to_absolute_semitone(note, key, transposition) ==
  IF is_rest(note) THEN -1
  ELSE IF note_name_to_semitone(note.note_name) < 0 THEN -1
  ELSE (note.octave_shift + 4) * 12 + note_name_to_semitone(note.note_name)
         + (KeyAccidental(note, key) + note.accidental) + transposition

----------------------------------------------------------------------------
(* Calls of note_to_absolute_semitone *)

MaxAccidental == 2       \* accidentals -MaxAccidental .. MaxAccidental
MaxOctaveShift == 1      \* octave shifts -MaxOctaveShift .. MaxOctaveShift
MaxTransposition == 1    \* transpositions -MaxTransposition .. MaxTransposition

Letters == {"c", "d", "e", "f", "g", "a", "b"}

\* the notes handed to the function: the letters, the rest and a note with
\* no valid name
TheoryNotes ==
  { [EmptyNote EXCEPT !.note_name = name, !.accidental = accidental,
                      !.octave_shift = octave_shift, !.value = 4]
      : name \in Letters \cup {"r", "x"},
        accidental \in -MaxAccidental .. MaxAccidental,
        octave_shift \in -MaxOctaveShift .. MaxOctaveShift }

InitTheory ==
  /\ \E note \in TheoryNotes :
       \E key \in {NULL} \cup (1 .. Len(key_signatures)) :
         \E transposition \in -MaxTransposition .. MaxTransposition :
           thy = [pc |-> "call", note |-> note, key |-> key,
                  transposition |-> transposition, result |-> 0]
  /\ seq = NewSequencer(NoSong) /\ call = NoCall(NoSong)
  /\ ctx = IdleCtx
  /\ drv = IdleDrv
  /\ prs = IdlePrs
  /\ cmp = IdleCmp

NoteToAbsoluteSemitone ==
  /\ thy.pc = "call"
  /\ thy' = [thy EXCEPT
               !.pc = "done",
               !.result = note_to_absolute_semitone(thy.note, thy.key,
                                                    thy.transposition)]
  /\ UNCHANGED <<seq, call, ctx, drv, prs, cmp>>

NextTheory == NoteToAbsoluteSemitone

SpecTheory == InitTheory /\ [][NextTheory]_vars

----------------------------------------------------------------------------
(* Properties of the semitone computation *)

LetterToSemitone ==
  [letter \in Letters |->
     CASE letter = "c" -> 0 [] letter = "d" -> 2 [] letter = "e" -> 4
       [] letter = "f" -> 5 [] letter = "g" -> 7 [] letter = "a" -> 9
       [] letter = "b" -> 11]

LetterIndex ==
  [letter \in Letters |->
     CASE letter = "c" -> 1 [] letter = "d" -> 2 [] letter = "e" -> 3
       [] letter = "f" -> 4 [] letter = "g" -> 5 [] letter = "a" -> 6
       [] letter = "b" -> 7]

\* the offset the key gives to a letter
KeyOffset(letter, key) == key_signatures[key].accidentals[LetterIndex[letter]]

\* a call with a key has returned
Answered == thy.pc = "done" /\ thy.key # NULL

\* C19: for a note with a letter a..g the result is (octave_shift + 4) * 12
\* + the letter's semitone + the key's offset for the letter + the note's
\* accidental + the transposition, which is the result in C major plus the
\* key's offset for the letter; for a rest the result is -1.
C19_AbsoluteSemitone ==
  Answered =>
    /\ thy.note.note_name = "r" => thy.result = -1
    /\ thy.note.note_name \in Letters =>
         /\ thy.result =
              (thy.note.octave_shift + 4) * 12
                + LetterToSemitone[thy.note.note_name]
                + KeyOffset(thy.note.note_name, thy.key)
                + thy.note.accidental + thy.transposition
         /\ thy.result =
              note_to_absolute_semitone(thy.note, c_major, thy.transposition)
                + KeyOffset(thy.note.note_name, thy.key)

\* f sharp, in a key that sharpens f, one octave up and transposed down
C19_Witness ==
  /\ Answered
  /\ thy.note.note_name = "f" /\ thy.note.accidental = 1
  /\ thy.note.octave_shift = 1 /\ thy.transposition = -1
  /\ KeyOffset("f", thy.key) = 1
  /\ thy.result = 66

\* C20: a note written with an accidental of its own is not moved by the
\* key: its result is the same in every key.
C20_KeyOnlyWithoutAccidental ==
  Answered /\ thy.note.accidental # 0 =>
    \A key \in 1 .. Len(key_signatures) :
      thy.result =
        note_to_absolute_semitone(thy.note, key, thy.transposition)

\* f sharp in G major: the key's sharp is added to the written one
C20_Witness ==
  /\ Answered
  /\ thy.note.note_name = "f" /\ thy.note.accidental = 1
  /\ thy.note.octave_shift = 0 /\ thy.transposition = 0
  /\ key_signatures[thy.key].name = "G major"
  /\ thy.result = 55
  /\ note_to_absolute_semitone(thy.note, c_major, 0) = 54

----------------------------------------------------------------------------
(* sequence_events: the compilation of a note array into events.  The      *)
(* uint64_t current_sample is held as an integer that goes below zero      *)
(* where the C value wraps; an event's uint32_t fields are, as the phase   *)
(* words, the int32_t with the same bit pattern.                           *)

\* C's integer division truncates towards zero
CDiv(a, b) ==
  IF (a < 0) # (b < 0) THEN 0 - (Abs(a) \div Abs(b)) ELSE Abs(a) \div Abs(b)

TwoTo24 == 2^24

\* the float get_tuplet_ratio returns, as the numerator of a fraction
\* over 2^24: 2.0f / 3.0f is 11184811 / 2^24
get_tuplet_ratio(tuplet) ==
  CASE tuplet = 0 -> TwoTo24
    [] tuplet = 3 -> 11184811
    [] tuplet = 5 -> 13421773
    [] tuplet = 6 -> 11184811
    [] tuplet = 7 -> 9586981
    [] OTHER -> TwoTo24

RECURSIVE BitLength(_)
BitLength(q) == IF q = 0 THEN 0 ELSE 1 + BitLength(q \div 2)

\* the float nearest to quot + rest / 2^24, truncated to an int: a float
\* keeps 24 significant bits, so the fraction rounds up to the next
\* integer from half a unit in the last place below it
RoundToFloat(quot, rest) ==
  IF quot > 0 /\ rest >= TwoTo24 - 2^(BitLength(quot) - 1)
    THEN quot + 1 ELSE quot

\* (int)((float)d * ratio) for 0 <= d < 2^19: the 43-bit product d * ratio
\* in two limbs
FloatProduct(d, ratio) ==
  LET high == d * (ratio \div Limb)
      low  == (high % Limb) * Limb + d * (ratio % Limb)
  IN  RoundToFloat((high \div Limb) + (low \div TwoTo24), low % TwoTo24)

\* duration_samples = (int)((float)duration_samples * tuplet_ratio)
TupletDuration(duration_samples, tuplet) ==
  IF duration_samples < 0
    THEN 0 - FloatProduct(0 - duration_samples, get_tuplet_ratio(tuplet))
    ELSE FloatProduct(duration_samples, get_tuplet_ratio(tuplet))

\* (samples_per_beat * 4) / note->value, times 3 / 2 for a dotted note
DottedDuration(note, samples_per_beat) ==
  IF note.dotted
    THEN CDiv(CDiv(samples_per_beat * 4, note.value) * 3, 2)
    ELSE CDiv(samples_per_beat * 4, note.value)

\* the duration_samples of a note: the time it takes in the song
NoteDurationSamples(note, samples_per_beat) ==
  IF note.tuplet > 0
    THEN TupletDuration(DottedDuration(note, samples_per_beat), note.tuplet)
    ELSE DottedDuration(note, samples_per_beat)

\* what a build makes of (uint32_t)x for a double x <= -1, which C leaves
\* undefined: the low 32 bits of the truncated value, or 0
Casts == {"wrap", "saturate"}

\* (uint32_t)(duration_samples * 0.9): the product is never below the
\* integer it is just above, so the cast of a positive one is 9d / 10
SoundingSamples(duration_samples, cast) ==
  IF duration_samples >= 0 THEN (duration_samples * 9) \div 10
  ELSE IF cast = "wrap" THEN CDiv(duration_samples * 9, 10)
  ELSE 0

\* freq_to_phase_increment(equal_temperament_freq(s), 44100) for the
\* absolute semitones s = 0 .. 71
phase_increment_table ==
  << 1592507, 1687202, 1787529, 1893821, 2006433, 2125742,
     2252145, 2386065, 2527947, 2678267, 2837525, 3006253,
     3185014, 3374405, 3575058, 3787642, 4012867, 4251484,
     4504291, 4772130, 5055895, 5356535, 5675051, 6012507,
     6370029, 6748810, 7150117, 7575284, 8025733, 8502970,
     9008582, 9544260, 10111792, 10713070, 11350101, 12025015,
     12740059, 13497621, 14300234, 15150568, 16051467, 17005940,
     18017164, 19088520, 20223585, 21426141, 22700203, 24050030,
     25480118, 26995249, 28600463, 30301137, 32102941, 34011874,
     36034329, 38177046, 40447164, 42852282, 45400416, 48100052,
     50960237, 53990499, 57200926, 60602275, 64205883, 68023748,
     72068658, 76354092, 80894328, 85704564, 90800832, 96200105 >>

\* note_to_frequency: the frequency as the absolute semitone it is
\* computed from, and -1 for the 0.0 of a rest or an invalid note
note_to_frequency(note, key, transposition) ==
  IF note_to_absolute_semitone(note, key, transposition) < 0 THEN -1
  ELSE note_to_absolute_semitone(note, key, transposition)

freq_to_phase_increment(freq) == phase_increment_table[freq + 1]

\* (int32_t)(0.3f / sqrtf((float)chord_size) * 0x10000000) for the chord
\* sizes 1 .. MAX_CHORD_SIZE
volume_scale_table ==
  << 80530640, 56943764, 46494388, 40265320,
     36014396, 32876494, 30437722, 28471882 >>

\* the notes of the array that carry the chord_id of note i, rests included
ChordSize(notes, i) ==
  1 + Cardinality({ j \in 1 .. Len(notes) :
                      j # i /\ notes[j].chord_id = notes[i].chord_id })

EventVolume(notes, i) ==
  IF notes[i].chord_id > 0 THEN volume_scale_table[ChordSize(notes, i)]
  ELSE volume_scale_table[1]

notes_are_simultaneous(note1, note2) ==
  note1.chord_id > 0 /\ note1.chord_id = note2.chord_id

\* the event of note i, which starts at current_sample
NoteEvent(notes, i, args, current_sample) ==
  CompiledEvent(current_sample,
                SoundingSamples(NoteDurationSamples(notes[i], args.samples_per_beat),
                                args.cast),
                notes[i].instrument,
                EventVolume(notes, i),
                freq_to_phase_increment(
                  note_to_frequency(notes[i], args.key, args.transposition)),
                args.sample_rate)

\* !is_rest(note) and freq > 0.0: the note gets an event
Sounds(note, key, transposition) ==
  ~is_rest(note) /\ note_to_frequency(note, key, transposition) >= 0

\* if (!is_rest(note)) { ... if (freq > 0.0) { ... event_array_push } }
PushEvent(notes, i, args, events, current_sample) ==
  IF Sounds(notes[i], args.key, args.transposition)
    THEN Append(events, NoteEvent(notes, i, args, current_sample))
    ELSE events

\* faulty variant: every note advances the time
AdvanceTime_always(notes, i) == TRUE

\* advance_time: a note followed by a note of its chord does not advance
\* the time, a rest always does
AdvanceTime(notes, i) ==
  \/ i + 1 > Len(notes)
  \/ ~notes_are_simultaneous(notes[i], notes[i + 1])
  \/ is_rest(notes[i])

NextSample(notes, i, args, current_sample) ==
  IF AdvanceTime(notes, i)
    THEN current_sample + NoteDurationSamples(notes[i], args.samples_per_beat)
    ELSE current_sample

RECURSIVE SequenceLoop(_, _, _, _, _)
SequenceLoop(notes, i, args, events, current_sample) ==
  IF i > Len(notes) THEN events
  ELSE SequenceLoop(notes, i + 1, args,
                    PushEvent(notes, i, args, events, current_sample),
                    NextSample(notes, i, args, current_sample))

\* sequence_events with the equal temperament and the volume 0.3f; cast is
\* the build's conversion of a negative double to uint32_t
sequence_events(notes, sample_rate, tempo_bpm, key, transposition, cast) ==
  SequenceLoop(notes, 1,
               [sample_rate      |-> sample_rate,
                samples_per_beat |-> (60 * sample_rate) \div tempo_bpm,
                key              |-> key,
                transposition    |-> transposition,
                cast             |-> cast],
               <<>>, 0)

----------------------------------------------------------------------------
(* Compiling a score: parse_music, then sequence_events on its notes *)

MaxTokens == 3         \* tokens in an enumerated score

\* a note, a dotted eighth, a rest, a triplet, a chord, chords with a
\* rest inside and at the end, a 128th, a note five octaves down, an
\* instrument and a letter that is no note
ScoreTokens ==
  { <<"c">>, <<"e", "8", ".">>, <<"r">>, <<"g", "t">>,
    <<"<", "c", "e", ">">>, <<"<", "c", "r", "e", ">">>, <<"<", "c", "r", ">">>,
    <<"c", "1", "2", "8">>, <<"c", ",", ",", ",", ",", ",">>,
    <<"[">> \o PluckSquareName \o <<"]">>, <<"x">> }

RECURSIVE JoinTokens(_)
JoinTokens(tokens) ==
  IF Len(tokens) = 0 THEN <<>>
  ELSE IF Len(tokens) = 1 THEN tokens[1]
  ELSE tokens[1] \o <<" ">> \o JoinTokens(Tail(tokens))

\* the melody and the rest of the simple melody test, and a note on the
\* pluck square
MelodyScore ==
  <<"c", "4", " ", "d", " ", "e", " ", "f", " ", "g", " ", "a", " ", "b",
    " ", "c", "'", "2">>

RestScore == <<"r", "2", " ", "c", "4">>

SquareScore == <<"[">> \o PluckSquareName \o <<"]", " ", "c", "4">>

Scores ==
  { JoinTokens(tokens) :
      tokens \in UNION { [1 .. k -> ScoreTokens] : k \in 0 .. MaxTokens } }
  \cup {MelodyScore, RestScore, SquareScore}

Tempos == {120, 100}

InitCompile ==
  /\ \E input \in Scores : prs = ParserStart(input)
  /\ \E tempo_bpm \in Tempos :
       cmp = [pc |-> "call", sample_rate |-> CdRate, tempo_bpm |-> tempo_bpm,
              key |-> c_major, transposition |-> 0, cast |-> "none",
              events |-> <<>>]
  /\ seq = NewSequencer(NoSong) /\ call = NoCall(NoSong)
  /\ ctx = IdleCtx
  /\ drv = IdleDrv
  /\ thy = IdleThy

\* sequence_events on the notes parse_music returned
SequenceEvents ==
  /\ prs.pc = "done"
  /\ cmp.pc = "call"
  /\ \E cast \in Casts :
       cmp' = [cmp EXCEPT
                 !.pc = "done",
                 !.cast = cast,
                 !.events = sequence_events(prs.array, cmp.sample_rate,
                                            cmp.tempo_bpm, cmp.key,
                                            cmp.transposition, cast)]
  /\ UNCHANGED <<seq, call, ctx, drv, prs, thy>>

NextCompile == NextParser \/ SequenceEvents

SpecCompile == InitCompile /\ [][NextCompile]_vars

Compiled == cmp.pc = "done"

\* .num_partials and .harmonic_ratios of the standard instruments
InstrumentPartials(instrument) ==
  IF instrument = "pluck square" THEN <<1, 3, 5>> ELSE <<1>>

----------------------------------------------------------------------------
(* Properties of the compiled events *)

\* the notes sequence_events makes an event of, in the order of the array
RECURSIVE NotesWithEvent(_, _)
NotesWithEvent(notes, i) ==
  IF i > Len(notes) THEN <<>>
  ELSE IF Sounds(notes[i], cmp.key, cmp.transposition)
    THEN <<i>> \o NotesWithEvent(notes, i + 1)
    ELSE NotesWithEvent(notes, i + 1)

\* EventNote[k] is the note event k was compiled from
EventNote == NotesWithEvent(prs.array, 1)

\* the raw duration of note i: the time sequence_events gives it
RawDuration(i) ==
  NoteDurationSamples(prs.array[i], (60 * cmp.sample_rate) \div cmp.tempo_bpm)

InChord(i) == prs.array[i].chord_id > 0

Chordmates(i, j) == InChord(i) /\ prs.array[i].chord_id = prs.array[j].chord_id

LastOfChord(i) ==
  InChord(i) /\ \A j \in 1 .. Len(prs.array) : Chordmates(i, j) => j <= i

\* C21: the events of the notes of one chord start at the same sample, and
\* the event of the note that follows the chord starts one raw duration
\* of the chord after them; so for every chord, one with a rest included
C21_ChordStartsTogether ==
  Compiled =>
    \A a \in 1 .. Len(cmp.events) :
      \A b \in 1 .. Len(cmp.events) :
        /\ Chordmates(EventNote[a], EventNote[b])
             => cmp.events[a].start_sample = cmp.events[b].start_sample
        /\ EventNote[b] > 1 /\ LastOfChord(EventNote[b] - 1)
             /\ Chordmates(EventNote[a], EventNote[b] - 1)
             => cmp.events[b].start_sample
                  = AddU32(cmp.events[a].start_sample, RawDuration(EventNote[a]))

\* a rest of a chord that is followed by another member of the chord
InnerRest(i) == InChord(i) /\ is_rest(prs.array[i]) /\ ~LastOfChord(i)

NoInnerRest(i) ==
  \A r \in 1 .. Len(prs.array) : Chordmates(i, r) => ~InnerRest(r)

\* C21, amended: the same of every chord in which no rest is followed by
\* another member of the chord (sums are modulo 2^32)
C21_ChordWithoutInnerRest ==
  Compiled =>
    \A a \in 1 .. Len(cmp.events) :
      \A b \in 1 .. Len(cmp.events) :
        /\ Chordmates(EventNote[a], EventNote[b]) /\ NoInnerRest(EventNote[a])
             => cmp.events[a].start_sample = cmp.events[b].start_sample
        /\ EventNote[b] > 1 /\ LastOfChord(EventNote[b] - 1)
             /\ Chordmates(EventNote[a], EventNote[b] - 1)
             /\ NoInnerRest(EventNote[a])
             => cmp.events[b].start_sample
                  = AddU32(cmp.events[a].start_sample, RawDuration(EventNote[a]))

\* two chords with two events each, one after the other, and a note after
\* them are compiled
C21_Witness ==
  /\ Compiled
  /\ Len(cmp.events) = 5
  /\ Chordmates(EventNote[1], EventNote[2]) /\ NoInnerRest(EventNote[1])
  /\ Chordmates(EventNote[3], EventNote[4]) /\ NoInnerRest(EventNote[3])
  /\ ~InChord(EventNote[5])
  /\ cmp.events[1].start_sample = cmp.events[2].start_sample
  /\ cmp.events[3].start_sample # cmp.events[1].start_sample
  /\ cmp.events[5].start_sample # cmp.events[3].start_sample

\* event k is the event of note EventNote[k]: it has the note's pitch and
\* instrument
EventsInNoteOrder ==
  /\ Len(cmp.events) = Len(EventNote)
  /\ \A k \in 1 .. Len(cmp.events) :
       /\ cmp.events[k].instrument = prs.array[EventNote[k]].instrument
       /\ cmp.events[k].partials[1].phase_increment
            = freq_to_phase_increment(
                note_to_frequency(prs.array[EventNote[k]], cmp.key,
                                  cmp.transposition))

\* C22: the events are in ascending order of start_sample (an unsigned
\* 32-bit number), and they are in the order of the notes they come from,
\* events with the same start_sample too
C22_SortedByStart ==
  Compiled =>
    /\ EventsInNoteOrder
    /\ \A k \in 1 .. Len(cmp.events) - 1 :
         ~ULt(cmp.events[k + 1].start_sample, cmp.events[k].start_sample)

\* a 128th, whose value is stored as -128, after a note: the event of the
\* note that follows it starts before its own
C22_Witness ==
  /\ Compiled
  /\ \E k \in 1 .. Len(cmp.events) - 1 :
       /\ prs.array[EventNote[k]].value = -128
       /\ ULt(cmp.events[k + 1].start_sample, cmp.events[k].start_sample)

\* the raw duration of note i as the claim computes it:
\* (60 * sample_rate / bpm) * 4 / value, times 3 / 2 when dotted
StatedRaw(i) ==
  LET plain == CDiv(((60 * cmp.sample_rate) \div cmp.tempo_bpm) * 4,
                    prs.array[i].value)
  IN  IF prs.array[i].dotted THEN CDiv(plain * 3, 2) ELSE plain

RECURSIVE StatedStart(_)
StatedStart(i) == IF i = 1 THEN 0 ELSE StatedStart(i - 1) + StatedRaw(i - 1)

SingleNotesOnly == \A i \in 1 .. Len(prs.array) : ~InChord(i)

StartSamples == [k \in 1 .. Len(cmp.events) |-> cmp.events[k].start_sample]

\* C23: in a score of single notes and rests every note that sounds has
\* an event, which starts at the sum of the stated raw durations of the
\* notes and rests before it and lasts floor(0.9 * raw) samples; the
\* melody at 120 BPM gives the eight starts of the test, r2 c4 one event
\* at 44100
C23_StartIsSumOfRaw ==
  Compiled /\ SingleNotesOnly =>
    /\ \A k \in 1 .. Len(cmp.events) :
         /\ cmp.events[k].start_sample = StatedStart(EventNote[k])
         /\ cmp.events[k].start_sample >= 0
         /\ cmp.events[k].duration_samples
              = (StatedRaw(EventNote[k]) * 9) \div 10
    /\ prs.input = MelodyScore /\ cmp.tempo_bpm = 120
         => StartSamples
              = <<0, 22050, 44100, 66150, 88200, 110250, 132300, 154350>>
    /\ prs.input = RestScore /\ cmp.tempo_bpm = 120
         => StartSamples = <<44100>>

\* a 128th and the note after it: the note's event starts 689 samples
\* before the 128th, at 2^32 - 689
C23_Witness ==
  /\ Compiled /\ SingleNotesOnly
  /\ cmp.tempo_bpm = 120
  /\ Len(cmp.events) = 2
  /\ prs.array[EventNote[1]].value = -128
  /\ cmp.events[1].start_sample = 0
  /\ cmp.events[2].start_sample = -689

\* a note that is no rest and has one of the letters a .. g
LetterNote(note) == ~is_rest(note) /\ note.note_name \in Letters

\* C24: sequence_events makes one event of every note that is no rest and
\* has a letter a .. g, and none of any other note
C24_OneEventPerLetterNote ==
  Compiled =>
    /\ Len(cmp.events)
         = Cardinality({ i \in 1 .. Len(prs.array) : LetterNote(prs.array[i]) })
    /\ \A i \in 1 .. Len(prs.array) :
         LetterNote(prs.array[i]) <=> \E k \in 1 .. Len(EventNote) : EventNote[k] = i

\* the note c five octaves down, of absolute semitone -12, has no event
C24_Witness ==
  /\ Compiled
  /\ \E i \in 1 .. Len(prs.array) :
       /\ LetterNote(prs.array[i])
       /\ note_to_absolute_semitone(prs.array[i], cmp.key, cmp.transposition) = -12
       /\ \A k \in 1 .. Len(EventNote) : EventNote[k] # i
  /\ Len(prs.array) = 1 /\ cmp.events = <<>>

\* the phase increment of `multiple` times the frequency of the increment
\* `fundamental`, up to the rounding of the conversion
IsMultiple(increment, fundamental, multiple) ==
  Abs(increment - multiple * fundamental) <= multiple

\* C25: the score "[pluck square] c4" gives one event, which has the three
\* partials of the pluck square, with the phase increments of 1, 3 and 5
\* times the frequency of the note
C25_SquareHasThreePartials ==
  Compiled /\ prs.input = SquareScore =>
    /\ Len(cmp.events) = 1
    /\ cmp.events[1].instrument = "pluck square"
    /\ cmp.events[1].num_partials = Len(InstrumentPartials("pluck square"))
    /\ Len(cmp.events[1].partials) = 3
    /\ \A k \in 1 .. 3 :
         IsMultiple(cmp.events[1].partials[k].phase_increment,
                    freq_to_phase_increment(
                      note_to_frequency(prs.array[1], cmp.key, cmp.transposition)),
                    InstrumentPartials("pluck square")[k])

\* the one event of "[pluck square] c4": on the pluck square, with the
\* one partial of the fundamental
C25_Witness ==
  /\ Compiled /\ prs.input = SquareScore
  /\ Len(cmp.events) = 1
  /\ cmp.events[1].instrument = "pluck square"
  /\ cmp.events[1].num_partials = 1
  /\ cmp.events[1].partials[1].phase_increment = TestPhaseIncrement

\* C27: of every event, release_sample is start_sample + duration_samples
\* as unsigned numbers (the sum modulo 2^32, and it does not wrap: it is
\* not below start_sample), and the event has at least one partial
C27_ReleaseAfterStart ==
  Compiled =>
    \A k \in 1 .. Len(cmp.events) :
      /\ cmp.events[k].release_sample
           = AddU32(cmp.events[k].start_sample, cmp.events[k].duration_samples)
      /\ ~ULt(cmp.events[k].release_sample, cmp.events[k].start_sample)
      /\ cmp.events[k].num_partials >= 1

\* a 128th after a quarter note at 120 BPM, in a build whose conversion
\* wraps: it starts at 22050 and is released at 21430
C27_Witness ==
  /\ Compiled /\ cmp.cast = "wrap"
  /\ \E k \in 1 .. Len(cmp.events) :
       /\ prs.array[EventNote[k]].value = -128
       /\ cmp.events[k].start_sample = 22050
       /\ cmp.events[k].release_sample = 21430

----------------------------------------------------------------------------
(* More properties of playback *)

\* the invocation just made was the first one of a sequencer without events
FirstOnEmpty == Invoked /\ Len(seq.events) = 0 /\ ~call.completed_before

\* C28: the first invocation on a sequencer with an empty event array
\* returns stop and sets completed, for any number of samples, and every
\* sample it writes is 0
C28_EmptySongStopsAtOnce ==
  FirstOnEmpty =>
    /\ call.returned = "stop"
    /\ seq.completed
    /\ Len(call.writes) = call.num_samples
    /\ \A k \in 1 .. Len(call.writes) : call.writes[k].value = 0

\* the first invocation on the empty song asked for two samples or more
C28_Witness ==
  /\ FirstOnEmpty
  /\ call.num_samples >= 2
  /\ call.returned = "stop"
  /\ Len(call.writes) = call.num_samples

\* the place of event e in active_events
ActiveIndex(e) == CHOOSE j \in 1 .. seq.num_active : seq.active_events[j] = e

\* the events whose start_sample has been played
Started == { e \in 1 .. Len(seq.events) :
               seq.events[e].start_sample < seq.current_sample_index }

\* C29: as long as no event found the active set full, the events taken up
\* are those whose start_sample has been played; each was activated in the
\* step of its start_sample and mixed from that sample on, so an event
\* still active has advanced its phase once for every sample since its
\* start; and until the first eviction the events stand in active_events
\* in the order of the array
C29_ActivatedAtStart ==
  Invoked /\ call.log.skipped = {} =>
    /\ Started = 1 .. seq.next_event_index
    /\ \A e \in Started :
         /\ call.log.activations[e] = 1
         /\ call.log.activated_at[e] = seq.events[e].start_sample
         /\ e \in ActiveSet =>
              seq.events[e].partials[1].phase_accum
                = (seq.current_sample_index - seq.events[e].start_sample)
                    * seq.events[e].partials[1].phase_increment
    /\ call.log.evicted = {} =>
         \A a \in Started : \A b \in Started :
           a < b => ActiveIndex(a) < ActiveIndex(b)

\* two events with the same start_sample, after the first sample, have
\* both been activated at it and mixed since
C29_Witness ==
  /\ Invoked /\ call.log.skipped = {}
  /\ Len(seq.events) = 2
  /\ seq.events[1].start_sample = seq.events[2].start_sample
  /\ seq.events[1].start_sample > 0
  /\ Started = {1, 2} /\ ActiveSet = {1, 2}
  /\ seq.current_sample_index > seq.events[1].start_sample + 1
  /\ seq.events[1].partials[1].phase_accum > 0

\* the eviction condition of an event at sample `at`: an ADSR event has
\* reached its release and its level is 0, any other is below the
\* audible threshold
EvictionCondition(event, at) ==
  IF InstrumentEnvelope(event.instrument) = "adsr_envelope"
    THEN event.release_sample <= at /\ event.envelope_state.current_level = 0
    ELSE get_current_envelope_level(event) < AUDIBLE_THRESHOLD

Activated == { e \in 1 .. Len(seq.events) : call.log.activations[e] > 0 }

\* C30: after the evict step of the last sample played, no active event
\* satisfies its eviction condition, every evicted event does (an evicted
\* event does not change any more), every activated event is either
\* active or evicted, and no event stands twice in the active set
C30_EvictStepIsExact ==
  Invoked /\ seq.current_sample_index > 0 =>
    /\ \A e \in ActiveSet :
         ~EvictionCondition(seq.events[e], seq.current_sample_index - 1)
    /\ \A e \in call.log.evicted :
         EvictionCondition(seq.events[e], seq.current_sample_index - 1)
    /\ ActiveSet \cup call.log.evicted = Activated
    /\ ActiveSet \cap call.log.evicted = {}
    /\ \A i \in 1 .. seq.num_active : \A j \in 1 .. seq.num_active :
         seq.active_events[i] = seq.active_events[j] => i = j

\* the pluck square at the head of a full active set has been evicted and
\* the last event of the set has taken its place
C30_Witness ==
  /\ Invoked
  /\ Len(seq.events) > MAX_SIMULTANEOUS_EVENTS
  /\ call.log.evicted = {1}
  /\ seq.num_active = MAX_SIMULTANEOUS_EVENTS - 1
  /\ seq.active_events[1] = MAX_SIMULTANEOUS_EVENTS

----------------------------------------------------------------------------
(* Loud songs: voices at the full volume scale, all starting at sample 0 *)

MaxVoices == 16        \* events in a loud song

QuarterTurn == 2^30    \* a phase increment of a quarter of the sine table

\* voices events of one instrument and one volume scale, whose phase
\* reaches the crest of the sine at sample 1 and its trough at sample 3
LoudSong(voices, instrument, volume_scale) ==
  [events |-> [k \in 1 .. voices |->
                 CompiledEvent(0, MaxDuration, instrument, volume_scale,
                               QuarterTurn, LowRate)],
   sample_rate |-> LowRate]

LoudSongs ==
  { LoudSong(voices, instrument, volume_scale) :
      voices \in 0 .. MaxVoices,
      instrument \in Instruments \cup {"NULL"},
      volume_scale \in {VOLUME_UNIT, TestVolume} }

InitMix ==
  /\ \E song \in LoudSongs : seq = NewSequencer(song) /\ call = NoCall(song)
  /\ ctx = IdleCtx
  /\ drv = IdleDrv
  /\ prs = IdlePrs
  /\ thy = IdleThy
  /\ cmp = IdleCmp

NextMix == SequencerCallback

SpecMix == InitMix /\ [][NextMix]_vars

\* every event of the song has one partial and a volume_scale between 0
\* and 0x10000000
QuietSinglePartials ==
  \A e \in 1 .. Len(seq.events) :
    /\ seq.events[e].volume_scale >= 0
    /\ seq.events[e].volume_scale <= VOLUME_UNIT
    /\ seq.events[e].num_partials = 1

\* the 32-bit sums the last invocation mixed from at most voices active
\* events are in the range of int16_t
MixInRange(voices) ==
  \A k \in 1 .. Len(call.writes) :
    call.writes[k].active <= voices
      => call.writes[k].mixed >= -32768 /\ call.writes[k].mixed <= 32767

\* C26: with at most 16 active events of one partial, each of a
\* volume_scale of at most 0x10000000, the sum mixed for a sample is in
\* [-32768, 32767], so that its truncation to int16_t does not wrap
C26_HeadroomFor16 == QuietSinglePartials => MixInRange(16)

\* C26 as the code has it: an event's sample is within [-4096, 4095] at the
\* volume_scale 0x10000000, so that the sum is in the range of int16_t,
\* and the sample written is the sum, with at most 8 active events
C26_HeadroomFor8 ==
  QuietSinglePartials =>
    /\ MixInRange(8)
    /\ \A k \in 1 .. Len(call.writes) :
         call.writes[k].active <= 8
           => call.writes[k].value = call.writes[k].mixed

\* eight events at the full volume scale were mixed at the crest of the
\* sine, and their sum 8 * 4095 was written as it is
C26_Witness ==
  /\ QuietSinglePartials
  /\ \E k \in 1 .. Len(call.writes) :
       /\ call.writes[k].active = 8
       /\ call.writes[k].mixed = 32760
       /\ call.writes[k].value = 32760
       /\ \A e \in 1 .. Len(seq.events) : seq.events[e].volume_scale = VOLUME_UNIT

----------------------------------------------------------------------------
(* The envelopes during playback.  The properties of one sample step are   *)
(* stated on the step the sample loop takes next from the current state.   *)

\* the state of the sample loop before its next iteration
LoopState == [seq |-> seq, writes |-> <<>>, log |-> call.log]

\* the state of the sample loop after its next iteration
StepAfter == SampleStep(LoopState, 0)

\* the events the next iteration generates a sample from
MixedNext ==
  { ActivateEvents(LoopState).seq.active_events[j] :
      j \in 1 .. ActivateEvents(LoopState).seq.num_active }

AdsrEvents ==
  { e \in 1 .. Len(seq.events) :
      InstrumentEnvelope(seq.events[e].instrument) = "adsr_envelope" }

\* samples_until_release of event e in the next iteration
UntilRelease(e) == seq.events[e].release_sample - seq.current_sample_index

\* the envelope state of e before the next iteration
EnvBefore(e) == seq.events[e].envelope_state

\* what a call of adsr_envelope with samples_until_release <= 0 makes of
\* the envelope state `before`
ReleaseCall(before, after) ==
  /\ after.phase = ADSR_RELEASE
  /\ before.phase = ADSR_RELEASE =>
       /\ after.release_start_level = before.release_start_level
       /\ after.release_coeff = before.release_coeff
  /\ before.phase # ADSR_RELEASE =>
       after.release_start_level = before.current_level
  /\ before.current_level > 0 => after.current_level < before.current_level
  /\ after.current_level = 0 \/ after.current_level >= AUDIBLE_THRESHOLD \div 4
  /\ before.current_level = 0 => after.current_level = 0

\* C31: an ADSR envelope called with samples_until_release <= 0 is in the
\* release phase after the call; release_start_level and release_coeff are
\* set by the first such call only; a level above 0 gets strictly smaller
\* with every such call, a level below AUDIBLE_THRESHOLD / 4 becomes 0 and
\* a level of 0 stays 0; an event in its release phase stays in it, since
\* every later call has samples_until_release <= 0; and an activated
\* event whose release_sample has been played is in its release phase
C31_ReleaseDecays ==
  LET after == StepAfter.seq.events
      mixed == MixedNext \cap AdsrEvents
  IN  /\ \A e \in mixed :
           UntilRelease(e) <= 0 => ReleaseCall(EnvBefore(e), after[e].envelope_state)
      /\ \A e \in AdsrEvents :
           /\ EnvBefore(e).phase = ADSR_RELEASE => UntilRelease(e) <= 0
           /\ e \in Activated /\ UntilRelease(e) < 0
                => EnvBefore(e).phase = ADSR_RELEASE

\* an ADSR event is two samples or more into its release, at a level
\* below the one the release started from, and its next sample is lower
C31_Witness ==
  LET after == StepAfter.seq.events
  IN  \E e \in MixedNext \cap AdsrEvents :
        /\ UntilRelease(e) < -1
        /\ EnvBefore(e).phase = ADSR_RELEASE
        /\ EnvBefore(e).release_coeff > 0
        /\ EnvBefore(e).current_level > 0
        /\ EnvBefore(e).current_level < EnvBefore(e).release_start_level
        /\ after[e].envelope_state.current_level > 0
        /\ after[e].envelope_state.current_level < EnvBefore(e).current_level

\* the active set after the next iteration
ActiveAfter(after) == { after.active_events[j] : j \in 1 .. after.num_active }

\* C32: an ADSR event from which a sample is generated is in the active
\* set after the step unless it was called with samples_until_release <= 0
\* and its current_level has become 0; so an activated ADSR event is
\* active as long as its release_sample has not been played, and an
\* evicted one is in its release phase, never in Attack, Decay or Sustain
C32_ActiveUntilRelease ==
  LET after == StepAfter.seq
  IN  /\ \A e \in MixedNext \cap AdsrEvents :
           e \notin ActiveAfter(after) =>
             /\ UntilRelease(e) <= 0
             /\ after.events[e].envelope_state.current_level = 0
             /\ after.events[e].envelope_state.phase = ADSR_RELEASE
      /\ \A e \in Activated \cap AdsrEvents :
           /\ UntilRelease(e) >= 0 => e \in ActiveSet
           /\ EnvBefore(e).phase # ADSR_RELEASE => e \in ActiveSet
           /\ e \in call.log.evicted =>
                /\ UntilRelease(e) < 0
                /\ EnvBefore(e).phase = ADSR_RELEASE
                /\ EnvBefore(e).current_level = 0

\* an ADSR event that was released from its Decay and has been in its
\* release for some samples, at a level above 0, is evicted by the next step
C32_Witness ==
  LET after == StepAfter.seq
  IN  \E e \in MixedNext \cap AdsrEvents :
        /\ seq.events[e].duration_samples > 0
        /\ UntilRelease(e) < -1
        /\ EnvBefore(e).release_start_level > EnvBefore(e).sustain_level
        /\ EnvBefore(e).current_level > 0
        /\ e \in ActiveSet
        /\ e \notin ActiveAfter(after)

----------------------------------------------------------------------------
(* Held notes: one event, long enough for its envelope to reach Sustain *)

MaxHold == 14          \* duration_samples 0 .. MaxHold
MidRate == 40          \* attack 2, decay 8, release 20 samples

\* three held notes that start 6 and 11 samples after the first
StaggeredSong ==
  [events |-> [k \in 1 .. 3 |->
                 CompiledEvent(CASE k = 1 -> 0 [] k = 2 -> 6 [] OTHER -> 11,
                               MaxHold, "pluck sine", TestVolume,
                               TestPhaseIncrement, MidRate)],
   sample_rate |-> MidRate]

HeldSongs ==
  { [events |-> << CompiledEvent(0, d, i, TestVolume, TestPhaseIncrement, rate) >>,
     sample_rate |-> rate] :
      d \in 0 .. MaxHold, i \in Instruments, rate \in {LowRate, MidRate} }
  \cup {StaggeredSong}

InitEnv ==
  /\ \E song \in HeldSongs : seq = NewSequencer(song) /\ call = NoCall(song)
  /\ ctx = IdleCtx
  /\ drv = IdleDrv
  /\ prs = IdlePrs
  /\ thy = IdleThy
  /\ cmp = IdleCmp

NextEnv == SequencerCallback

SpecEnv == InitEnv /\ [][NextEnv]_vars

\* what a call of the envelope function leaves of the ADSR level, by the
\* phase it leaves
LevelInPhase(before, after) ==
  /\ after.phase = ADSR_ATTACK =>
       /\ after.current_level >= AUDIBLE_THRESHOLD
       /\ before.phase = ADSR_ATTACK => after.current_level >= before.current_level
  /\ after.phase = ADSR_DECAY =>
       /\ after.current_level >= after.sustain_level
       /\ before.phase = ADSR_DECAY => after.current_level <= before.current_level
  /\ after.phase = ADSR_SUSTAIN => after.current_level = after.sustain_level

\* C33: the ADSR current_level of a compiled event is within
\* [0, 0x7FFFFFFF]; a call that leaves the phase Attack leaves a level of
\* at least AUDIBLE_THRESHOLD and not below the level of the Attack sample
\* before it, one that leaves Decay a level of at least sustain_level and
\* not above the level of the Decay sample before it, and one that leaves
\* Sustain the level sustain_level
C33_LevelWithinPhaseRange ==
  LET after == StepAfter.seq.events
  IN  /\ \A e \in 1 .. Len(seq.events) :
           /\ EnvBefore(e).current_level >= 0
           /\ EnvBefore(e).current_level <= Q31_ONE
           /\ LevelInPhase(CompiledEnvelope(seq.sample_rate), EnvBefore(e))
      /\ \A e \in MixedNext :
           LevelInPhase(EnvBefore(e), after[e].envelope_state)

\* the level after the next sample, in the phase the sample leaves
NextLevel(after, e, phase) ==
  /\ after[e].envelope_state.phase = phase
  /\ EnvBefore(e).phase = phase
  /\ after[e].envelope_state.current_level # EnvBefore(e).current_level

\* of three events, the next sample raises one within its Attack, lowers
\* one within its Decay and leaves one in its Sustain
C33_Witness ==
  LET after == StepAfter.seq.events
  IN  /\ \E e \in MixedNext \cap AdsrEvents :
           /\ NextLevel(after, e, ADSR_ATTACK)
           /\ after[e].envelope_state.current_level > AUDIBLE_THRESHOLD
      /\ \E e \in MixedNext \cap AdsrEvents :
           /\ NextLevel(after, e, ADSR_DECAY)
           /\ after[e].envelope_state.current_level > EnvBefore(e).sustain_level
      /\ \E e \in MixedNext \cap AdsrEvents :
           /\ EnvBefore(e).phase = ADSR_SUSTAIN
           /\ after[e].envelope_state.phase = ADSR_SUSTAIN
           /\ after[e].envelope_state.current_level = EnvBefore(e).sustain_level

----------------------------------------------------------------------------
(* The envelope state the compiler gives an event *)

\* the envelope state holds ADSR fields as sequence_events sets them
AdsrFields(es, sample_rate) ==
  /\ es.phase = ADSR_ATTACK
  /\ es.current_level = AUDIBLE_THRESHOLD
  /\ es.attack_samples + es.decay_samples + es.release_samples > 0
  /\ es.sustain_level > 0 /\ es.sustain_level < Q31_ONE

\* the envelope state holds Pluck fields for an exponential decay: the
\* level starts at the initial amplitude, and the multiplier of a sample
\* is a Q1.31 fraction of one half at least
PluckFields(es) ==
  /\ PluckView(es).initial_amplitude > 0
  /\ PluckView(es).current_level = PluckView(es).initial_amplitude
  /\ PluckView(es).decay_multiplier >= Q31_ONE \div 2
  /\ PluckView(es).decay_multiplier < Q31_ONE

\* C34: the envelope state of every compiled event holds the fields of the
\* variant its instrument's envelope function reads: ADSR fields for an
\* ADSR instrument, Pluck fields for a pluck instrument
C34_EnvelopeStateMatchesInstrument ==
  Compiled =>
    \A k \in 1 .. Len(cmp.events) :
      /\ InstrumentEnvelope(cmp.events[k].instrument) = "adsr_envelope"
           => AdsrFields(cmp.events[k].envelope_state, cmp.sample_rate)
      /\ InstrumentEnvelope(cmp.events[k].instrument) = "pluck_envelope"
           => PluckFields(cmp.events[k].envelope_state)

\* a score with a pluck sine note and a pluck square note was compiled;
\* the first call of pluck_envelope takes the level of the second from
\* sustain_level's 0.6 of full scale to below a thousandth of a percent
C34_Witness ==
  /\ Compiled
  /\ \E k \in 1 .. Len(cmp.events) :
       /\ cmp.events[k].instrument = "pluck sine"
       /\ AdsrFields(cmp.events[k].envelope_state, cmp.sample_rate)
  /\ \E k \in 1 .. Len(cmp.events) :
       /\ cmp.events[k].instrument = "pluck square"
       /\ PluckView(cmp.events[k].envelope_state).decay_multiplier = 8820
       /\ PluckView(pluck_envelope(cmp.events[k].envelope_state, 0, 1)).current_level
            = 5292

----------------------------------------------------------------------------
(* What the callback changes in the event array *)

\* event `after` differs from event `before` in its envelope state and in
\* the phase accumulators of its partials at most
OnlyPhaseAndEnvelope(before, after) ==
  after = [before EXCEPT
             !.envelope_state = after.envelope_state,
             !.partials = [i \in DOMAIN before.partials |->
                             [before.partials[i] EXCEPT
                                !.phase_accum = after.partials[i].phase_accum]]]

\* C35: a sample step of sequencer_callback leaves the length of the event
\* array and every event outside the active set of the step as they are,
\* and changes of an active event nothing but its envelope state and the
\* phase accumulators of its partials
C35_CallbackFrame ==
  LET after == StepAfter.seq.events
      mixed == MixedNext
  IN  /\ Len(after) = Len(seq.events)
      /\ \A e \in 1 .. Len(seq.events) :
           /\ DOMAIN after[e].partials = DOMAIN seq.events[e].partials
           /\ OnlyPhaseAndEnvelope(seq.events[e], after[e])
           /\ e \notin mixed => after[e] = seq.events[e]

\* the next step advances the phase and the envelope of an active event
\* and leaves alone an event that has been evicted and one that has not
\* started
C35_Witness ==
  LET after == StepAfter.seq.events
      mixed == MixedNext
  IN  /\ \E e \in mixed :
           /\ after[e].partials[1].phase_accum # seq.events[e].partials[1].phase_accum
           /\ after[e].envelope_state # seq.events[e].envelope_state
      /\ \E e \in call.log.evicted : e \notin mixed
      /\ \E e \in 1 .. Len(seq.events) :
           e \notin mixed /\ e \notin Activated

----------------------------------------------------------------------------
(* The driver while playback is stopped *)

\* the audio thread enters the callback in this step
EntersCallback ==
  \/ drv.pc # "in_callback" /\ drv'.pc = "in_callback"
  \/ drv.buffer # "callback" /\ drv'.buffer = "callback"

\* the step plays on from the sample the sequencer has reached
PlaysOn ==
  /\ call'.start_index = seq.current_sample_index
  /\ seq'.current_sample_index = seq.current_sample_index + call'.num_samples
  /\ Len(call'.writes) = call'.num_samples
  /\ \A k \in 1 .. Len(call'.writes) :
       call'.writes[k].at = seq.current_sample_index + k - 1

\* C36: while ctx->playing is false the process handler does not invoke
\* the callback and the sequencer state does not change; and the
\* sequencer state changes only by an invocation that plays on from the
\* sample reached, whatever stop, resume and silent buffers came before it
C36_StoppedLeavesSequencer ==
  [][ /\ ~ctx.playing => seq' = seq /\ ~EntersCallback
      /\ seq' # seq => PlaysOn ]_vars

\* stop() has returned, playing is false, nothing has been freed, and the
\* audio thread is inside the callback on a song that has not been played
\* to its end
C36_Witness ==
  /\ drv.stop_returned /\ ~ctx.playing /\ ~drv.freed
  /\ drv.pc = "in_callback"
  /\ ~seq.completed /\ seq.current_sample_index > 0

----------------------------------------------------------------------------
(* Tonics of the keys and the transposition between two keys *)

\* key == &k1 || key == &k2, the keys given by their names
IsKey(key, names) == key # NULL /\ key_signatures[key].name \in names

get_key_tonic_semitone(key) ==
  CASE IsKey(key, {"C major", "A minor"})   -> 0
    [] IsKey(key, {"G major", "E minor"})   -> 7
    [] IsKey(key, {"D major", "B minor"})   -> 2
    [] IsKey(key, {"A major", "F# minor"})  -> 9
    [] IsKey(key, {"E major", "C# minor"})  -> 4
    [] IsKey(key, {"B major", "G# minor"})  -> 11
    [] IsKey(key, {"F# major", "D# minor"}) -> 6
    [] IsKey(key, {"F major", "D minor"})   -> 5
    [] IsKey(key, {"Bb major", "G minor"})  -> 10
    [] IsKey(key, {"Eb major", "C minor"})  -> 3
    [] IsKey(key, {"Ab major", "F minor"})  -> 8
    [] IsKey(key, {"Db major", "Bb minor"}) -> 1
    [] IsKey(key, {"Gb major", "Eb minor"}) -> 6
    [] OTHER -> 0

calculate_key_transposition(from_key, to_key) ==
  get_key_tonic_semitone(to_key) - get_key_tonic_semitone(from_key)

InitKeys ==
  /\ \E from_key \in 1 .. Len(key_signatures) :
       \E to_key \in 1 .. Len(key_signatures) :
         thy = [pc |-> "call", from_key |-> from_key, to_key |-> to_key,
                from_tonic |-> 0, to_tonic |-> 0, result |-> 0]
  /\ seq = NewSequencer(NoSong) /\ call = NoCall(NoSong)
  /\ ctx = IdleCtx
  /\ drv = IdleDrv
  /\ prs = IdlePrs
  /\ cmp = IdleCmp

CalculateKeyTransposition ==
  /\ thy.pc = "call"
  /\ thy' = [thy EXCEPT
               !.pc = "done",
               !.from_tonic = get_key_tonic_semitone(thy.from_key),
               !.to_tonic = get_key_tonic_semitone(thy.to_key),
               !.result = calculate_key_transposition(thy.from_key, thy.to_key)]
  /\ UNCHANGED <<seq, call, ctx, drv, prs, cmp>>

NextKeys == CalculateKeyTransposition

SpecKeys == InitKeys /\ [][NextKeys]_vars

\* the pitch classes of the tonics of the 15 major keys, in the order of
\* key_signatures
MajorTonics == <<0, 7, 2, 9, 4, 11, 6, 1, 5, 10, 3, 8, 1, 6, 11>>

\* the major key of a key: a minor key stands 15 entries after its
\* relative major
MajorOf(key) == IF key > Len(MajorTonics) THEN key - Len(MajorTonics) ELSE key

\* C37: get_key_tonic_semitone gives every major key the pitch class of
\* its tonic and every minor key the value of its relative major, and
\* calculate_key_transposition gives tonic(to) - tonic(from)
C37_TonicTable ==
  thy.pc = "done" =>
    /\ thy.from_tonic = MajorTonics[MajorOf(thy.from_key)]
    /\ thy.to_tonic = MajorTonics[MajorOf(thy.to_key)]
    /\ thy.result = MajorTonics[MajorOf(thy.to_key)]
                      - MajorTonics[MajorOf(thy.from_key)]

\* the transposition from C major to C# major has been computed as 0
C37_Witness ==
  /\ thy.pc = "done"
  /\ key_signatures[thy.from_key].name = "C major"
  /\ key_signatures[thy.to_key].name = "C# major"
  /\ thy.to_tonic = 0
  /\ thy.result = 0

----------------------------------------------------------------------------
(* Splitting the samples of a buffer over two invocations *)

\* the sample values of a sequence of buffer writes
Values(writes) == [k \in 1 .. Len(writes) |-> writes[k].value]

\* an invocation for n1 samples followed by one for n2 samples, and one
\* invocation for n1 + n2 samples, from the state s with the log `log`
SplitAgrees(s, log, n1, n2) ==
  LET first  == CallbackResult(s, log, n1)
      second == CallbackResult(first.seq, first.log, n2)
      whole  == CallbackResult(s, log, n1 + n2)
  IN  /\ second.seq = whole.seq
      /\ Values(first.writes) \o Values(second.writes) = Values(whole.writes)
      /\ second.continue = whole.continue
      /\ second.log.evicted = whole.log.evicted

\* C38: from every state, an invocation for n1 samples followed by one for
\* n2 samples writes the sample values and leaves the sequencer state, the
\* events and the return value of one invocation for n1 + n2 samples
C38_SplitInvariant ==
  \A n1 \in 0 .. MaxNumSamples : \A n2 \in 0 .. MaxNumSamples :
    SplitAgrees(seq, call.log, n1, n2)

\* two samples in one invocation or in two: the first sample evicts the
\* last active event, so that the invocation for one sample
\* returns stop and marks the song completed before the second is asked for
C38_Witness ==
  LET first  == CallbackResult(seq, call.log, 1)
      second == CallbackResult(first.seq, first.log, 1)
      whole  == CallbackResult(seq, call.log, 2)
  IN  /\ seq.num_active > 0
      /\ first.log.evicted # call.log.evicted
      /\ ~first.continue /\ first.seq.completed
      /\ whole.writes[2].value = second.writes[1].value
      /\ whole.seq = second.seq

----------------------------------------------------------------------------
(* Two sequencers played side by side: a song, and the song with two       *)
(* adjacent events of one start_sample swapped.  thy holds the second.     *)

\* the array with the events k and k + 1 swapped
SwapEvents(events, k) ==
  [j \in 1 .. Len(events) |->
     CASE j = k     -> events[k + 1]
       [] j = k + 1 -> events[k]
       [] OTHER     -> events[j]]

\* the places of an array where two different events of one start_sample
\* stand side by side
SwapPlaces(events) ==
  { k \in 1 .. Len(events) - 1 :
      /\ events[k].start_sample = events[k + 1].start_sample
      /\ events[k] # events[k + 1] }

\* a full active set whose last place goes to a pluck sine in the song and
\* to a pluck square in the swapped song
FullSong ==
  [k \in 1 .. MAX_SIMULTANEOUS_EVENTS + 1 |->
     CompiledEvent(0, MaxDuration,
                   IF k <= MAX_SIMULTANEOUS_EVENTS THEN "pluck sine"
                                                   ELSE "pluck square",
                   TestVolume, TestPhaseIncrement, LowRate)]

SwapSongs ==
  { [events |-> a, sample_rate |-> LowRate] :
      a \in SortedArrays(EventChoices(LowRate, Instruments)) \cup {FullSong} }

\* the second sequencer, on the swapped song
Twin(song, k) ==
  [pc       |-> "twin",
   place    |-> k,
   seq      |-> NewSequencer([song EXCEPT !.events = SwapEvents(song.events, k)]),
   log      |-> NewLog(song),
   writes   |-> <<>>,
   continue |-> TRUE,
   peak     |-> 0]

InitSwap ==
  /\ \E song \in SwapSongs :
       \E k \in SwapPlaces(song.events) :
         /\ seq = NewSequencer(song) /\ call = NoCall(song)
         /\ thy = Twin(song, k)
  /\ ctx = IdleCtx
  /\ drv = IdleDrv
  /\ prs = IdlePrs
  /\ cmp = IdleCmp

\* the largest active set the writes were mixed from
PeakActive(writes, peak) ==
  IF \E k \in 1 .. Len(writes) : writes[k].active > peak
    THEN CHOOSE a \in { writes[k].active : k \in 1 .. Len(writes) } :
           \A k \in 1 .. Len(writes) : writes[k].active <= a
    ELSE peak

TwinReturned(r, mine) ==
  thy' = [thy EXCEPT !.seq = r.seq, !.log = r.log, !.writes = r.writes,
                     !.continue = r.continue,
                     !.peak = PeakActive(r.writes \o mine.writes, thy.peak)]

\* both sequencers are asked for the same number of samples
InvokeBoth(num_samples) ==
  /\ seq.current_sample_index + num_samples <= MaxSampleIndex
  /\ Returned(CallbackResult(seq, call.log, num_samples), num_samples)
  /\ TwinReturned(CallbackResult(thy.seq, thy.log, num_samples),
                  CallbackResult(seq, call.log, num_samples))
  /\ UNCHANGED <<ctx, drv, prs, cmp>>

NextSwap == \E n \in 1 .. MaxNumSamples : InvokeBoth(n)

SpecSwap == InitSwap /\ [][NextSwap]_vars

\* the two sequencers wrote the same sample values, returned the same and
\* have the same number of active events
SameSound ==
  /\ Values(call.writes) = Values(thy.writes)
  /\ (call.returned = "stop") = ~thy.continue
  /\ seq.completed = thy.seq.completed
  /\ seq.num_active = thy.seq.num_active
  /\ seq.current_sample_index = thy.seq.current_sample_index

\* C39: as long as no sample was mixed from MAX_SIMULTANEOUS_EVENTS
\* events, a song and the song with two adjacent events of one
\* start_sample swapped give the same sample values and complete at the
\* same sample
C39_SwapOfEqualStarts ==
  Invoked /\ thy.peak < MAX_SIMULTANEOUS_EVENTS => SameSound

\* a pluck sine and a pluck square of one start_sample have been played in
\* both orders: they sounded together, the pluck square was evicted first,
\* and both sequencers have completed at the same sample
C39_Witness ==
  /\ Invoked
  /\ thy.peak = 2
  /\ seq.events[thy.place].instrument # seq.events[thy.place + 1].instrument
  /\ seq.events[thy.place].start_sample > 0
  /\ seq.completed /\ thy.seq.completed
  /\ call.returned = "stop" /\ call.stops = 1
  /\ SameSound

----------------------------------------------------------------------------
(* parse_music when malloc may fail: parse_chord returns NULL from its     *)
(* `if (!chord_notes)` without writing *input_pos                          *)

\* parse_chord whose malloc has returned NULL
parse_chord_null(input, input_pos, last_duration) ==
  [notes |-> <<>>, last_duration |-> last_duration, input_pos |-> input_pos,
   ats |-> <<>>]

\* a turn of the main loop at a '<' for which parse_chord gets no memory
ChordWithoutMemory ==
  /\ prs.pc = "loop"
  /\ TokenKind(prs.input, SkipSpace(prs.input, prs.p)) = "chord"
  /\ prs' = PushChord(Entering(prs, SkipSpace(prs.input, prs.p)),
                      parse_chord_null(prs.input, SkipSpace(prs.input, prs.p),
                                       prs.last_duration))
  /\ UNCHANGED <<seq, call, ctx, drv, thy, cmp>>

NextParserMem == NextParser \/ ChordWithoutMemory

SpecParserMem == InitParser /\ [][NextParserMem]_vars

\* C40: every turn of the main loop of parse_music ends the parsing or
\* moves p forward by one character at least, and p never passes the
\* terminating NUL, so that the loop ends after Len(input) + 1 turns at most
C40_EveryTurnConsumes ==
  [][ prs.pc = "loop" =>
        /\ prs'.pc = "done" \/ prs'.p > prs.p
        /\ prs'.p <= Len(prs.input) + 1 ]_vars

\* the last turn read the '<' that p still stands at, and the loop goes on
C40_Witness ==
  /\ prs.pc = "loop"
  /\ prs.token = prs.p
  /\ At(prs.input, prs.p) = "<"
  /\ prs.array = prs.before
=============================================================================
